---- MODULE Spec2Model ----
(***************************************************************************)
(* Verification model of the gateway's network-topology refresh            *)
(* (indexer health pipeline, POI resolver, snapshot builder) and of the    *)
(* receipt signer, the request handlers and the readiness endpoint.        *)
(*                                                                         *)
(* The specifications that share the module:                               *)
(*   SpecPI  - process_info (network/internal/indexer_processing.rs)       *)
(*   SpecSU  - process_info on indexers that share a URL                   *)
(*   SpecFU  - process_indexers_info /                                     *)
(*             construct_network_topology_snapshot (network/internal.rs)   *)
(*   SpecFT  - fetch_update from its two fetches on (network/internal.rs)  *)
(*   SpecRC  - ReceiptSigner / LegacySigner (receipts.rs)                  *)
(*   SpecRQ  - check_token (auth/studio.rs), handle_subgraph_query         *)
(*             (src/main.rs)                                               *)
(*   SpecRD  - handle_ready (graph-gateway/src/main.rs)                    *)
(*   SpecBV  - check_indexer_blocked_by_version (network/internal.rs)      *)
(*   SpecMC  - manifest_client::create (manifest_client.rs); SpecMCLive    *)
(*             adds the fairness of its tasks                              *)
(***************************************************************************)
EXTENDS Integers, Sequences, FiniteSets, TLC

(***************************************************************************)
(* Bounds of the model.                                                    *)
(***************************************************************************)
\* Number of refreshes (runs of process_info) that share one POI cache.
MaxRefresh == 2
\* Largest time step that may pass between two refreshes.
MaxElapsed == 1
\* Number of receipts the receipt signer is asked for.
MaxReceipts == 2
\* Largest indexer_selection_retry_limit and largest number of candidates.
MaxRetryLimit == 2
MaxCandidates == 3

(***************************************************************************)
(* Values.                                                                 *)
(***************************************************************************)
None == "None"

Indexers == {"i1", "i2"}
Deployments == {"d1", "d2"}

\* Semantic versions: <<major, minor, patch>>, or <<major, minor, patch, pre>>
\* for a version with a pre-release tag.
Versions == {<<0, 9, 9>>, <<0, 10, 0>>}

\* semver::Version ordering: major, minor, patch, and a version with a
\* pre-release tag (a fourth component) precedes the same version without one.
VersionLt(a, b) ==
    \/ a[1] < b[1]
    \/ a[1] = b[1] /\ a[2] < b[2]
    \/ a[1] = b[1] /\ a[2] = b[2] /\ a[3] < b[3]
    \/ a[1] = b[1] /\ a[2] = b[2] /\ a[3] = b[3] /\ Len(a) = 4 /\ Len(b) = 3

\* Resolved host addresses.
IpAddrs == {"ip1", "ip2"}

\* Proofs of indexing and the blocks they are taken at.
Pois == {"poiA", "poiBad"}
PoiBlocks == {5}

\* The cache TTL of the POI resolver, in time steps of 20 minutes.
DEFAULT_CACHE_TLL == 1

\* The length of a Studio API key and the lengths of the tokens tried.
KEY_LEN == 32

\* handle_ready: the seconds after startup during which the gateway is not
\* ready, and the bounds of the clock, of the allocations map and of the
\* number of requests.
READY_DELAY == 30
MaxUptime == 32
MaxAllocations == 1
MaxResponses == 2
\* The manifest tasks spawned by manifest_client::create.
MaxTasks == 3
TokenLens == {0, KEY_LEN - 1, KEY_LEN, KEY_LEN + 1}

\* SetToSeq: some enumeration of a finite set (iteration order of a map).
RECURSIVE SetToSeq(_)
SetToSeq(S) ==
    IF S = {} THEN <<>>
    ELSE LET x == CHOOSE y \in S : TRUE IN <<x>> \o SetToSeq(S \ {x})

SeqToSet(s) == {s[k] : k \in 1..Len(s)}

\* Vec::retain
RECURSIVE Retain(_, _)
Retain(s, keep) ==
    IF s = <<>> THEN <<>>
    ELSE (IF Head(s) \in keep THEN <<Head(s)>> ELSE <<>>) \o Retain(Tail(s), keep)

(***************************************************************************)
(* Option<T>: [some |-> BOOLEAN, v |-> T].                                   *)
(***************************************************************************)
NoneOf(dflt) == [some |-> FALSE, v |-> dflt]
Some(x) == [some |-> TRUE, v |-> x]

(***************************************************************************)
(* State.                                                                  *)
(***************************************************************************)
VARIABLES
    \* --- configuration shared by the two pipelines (InternalState) ---
    addr_blocklist,        \* Option: a set of indexer ids
    host_blocklist,        \* Option: a set of blocked addresses
    version_requirements,  \* [min_agent_version, min_graph_node_version]
    poi_blocklist,         \* Option: a set of [deployment, block, poi]
    \* --- process_info ---
    raw,                   \* the IndexerRawInfo of every indexer (input)
    proc,                  \* per indexer: position and locals of its future
    host_resolver_lock,    \* Mutex<HostResolver>: None or the holder
    poi_resolver_lock,     \* Mutex<PoiResolver>: None or the holder
    poi_cache,             \* PoiResolver.cache: <<url, <<deployment, block>>>> -> [poi, at]
    now,                   \* the clock the cache TTL is measured with
    calls,                 \* per indexer: the resolver calls made, <<resolver, kind, outcome>>
    refresh,               \* number of the running refresh
    \* --- fetch_update (network/internal.rs) ---
    min_scalar_tap_version,\* InternalState.indexers_min_scalar_tap_version
    topology,              \* the pre-processed indexers and subgraphs info (input)
    fu,                    \* per indexer: position and IndexerInfo of its future
    network,               \* the result of fetch_update
    \* --- ReceiptSigner (receipts.rs) ---
    receipt_pools,         \* LegacySigner.receipt_pools: allocation -> pool (0: no entry)
    pools,                 \* every ReceiptPool ever created (the Arc heap)
    map_lock,              \* the RwLock of receipt_pools: [readers, writer]
    pool_lock,             \* the Mutex of every pool: None or the holder
    receipts,              \* every receipt issued, with what became of it
    callers,               \* per request handler: position and locals
    \* --- request handling (auth/studio.rs, src/main.rs) ---
    ctx,                   \* the Context of the handlers: configuration and key map
    request,               \* the HTTP request being handled
    query,                 \* the Query of the request: position, attempts, response
    kafka,                 \* KafkaClient: the messages sent, oldest first
    \* --- the fetches of fetch_update (network/internal.rs) ---
    client_lock,           \* Mutex<SubgraphClient>: None or the branch that holds it
    fetch,                 \* per branch of try_join: position, fetch outcome, result
    \* --- handle_ready (graph-gateway/src/main.rs) ---
    ready_data,            \* ReadyData: time since start_time, chain heads, allocations
    ready_responses,       \* the statuses handle_ready has answered, oldest first
    \* --- manifest_client::create (src/manifest_client.rs) ---
    deployment_list,       \* the `subgraphs` eventual: the latest list handled, if any
    manifests,             \* the manifests map: deployment -> its task (0: no entry)
    manifest_tasks,        \* every task spawned to fetch a manifest, with its Eventual
    subgraph_info_map      \* the published SubgraphInfoMap: None before the first update

cfgVars == <<addr_blocklist, host_blocklist, version_requirements, poi_blocklist>>
piVars == <<raw, proc, poi_cache, now, refresh>>
lockVars == <<host_resolver_lock, poi_resolver_lock>>
fuVars == <<min_scalar_tap_version, topology, fu, network>>
rcVars == <<receipt_pools, pools, map_lock, pool_lock, receipts, callers>>
rqVars == <<ctx, request, query, kafka>>
ftVars == <<client_lock, fetch>>
rdVars == <<ready_data, ready_responses>>
mcVars == <<deployment_list, manifests, manifest_tasks, subgraph_info_map>>
vars == <<cfgVars, piVars, lockVars, calls, fuVars, rcVars, rqVars, ftVars, rdVars, mcVars>>

\* The variables that process_info and its resolvers do not touch.
notPI == <<fuVars, rcVars, rqVars, ftVars, rdVars, mcVars>>
\* The variables that fetch_update does not touch.
notFU == <<piVars, rcVars, rqVars, ftVars, rdVars, mcVars>>
\* The variables that the receipt signer does not touch.
notRC == <<cfgVars, piVars, lockVars, calls, fuVars, rqVars, ftVars, rdVars, mcVars>>
\* The variables that the handling of a request does not touch.
notRQ == <<cfgVars, piVars, lockVars, calls, fuVars, rcVars, ftVars, rdVars, mcVars>>
\* The variables that handle_ready does not touch.
notRD == <<cfgVars, piVars, lockVars, calls, fuVars, rcVars, rqVars, ftVars, mcVars>>

(***************************************************************************)
(* Configuration.                                                          *)
(***************************************************************************)
VersionRequirementsSet ==
    { [min_agent_version |-> <<0, 10, 0>>, min_graph_node_version |-> <<0, 10, 0>>] }

PoiBlocklistSet ==
    { NoneOf({}),
      Some({[deployment |-> "d1", block |-> 5, poi |-> "poiBad"]}) }

\* The allocations receipts are asked for and the request handlers that ask.
Allocations == {"a1", "a2"}
Callers == {"t1", "t2"}

CallerIdle == [pc |-> "idle", allocation |-> None, pool |-> 0, receipt |-> 0,
               status |-> None]

\* ReceiptSigner::new / LegacySigner::new: no pool, no receipt, no caller.
InitSignerIdle ==
    /\ receipt_pools = [a \in Allocations |-> 0]
    /\ pools = <<>>
    /\ map_lock = [readers |-> {}, writer |-> None]
    /\ pool_lock = <<>>
    /\ receipts = <<>>
    /\ callers = [t \in Callers |-> CallerIdle]

\* No request is being handled.
InitRequestIdle ==
    /\ ctx = None
    /\ request = None
    /\ query = None
    /\ kafka = None

InitFetchIdle ==
    /\ client_lock = None
    /\ fetch = None

InitReadyIdle ==
    /\ ready_data = None
    /\ ready_responses = <<>>

InitManifestIdle ==
    /\ deployment_list = None
    /\ manifests = None
    /\ manifest_tasks = None
    /\ subgraph_info_map = None

InitCfg ==
    /\ addr_blocklist \in {NoneOf({}), Some({"i2"})}
    /\ host_blocklist \in {NoneOf({}), Some({"ip1"})}
    /\ version_requirements \in VersionRequirementsSet
    /\ poi_blocklist \in PoiBlocklistSet

(***************************************************************************)
(* PoiBlocklist (network/indexer_indexing_poi_blocklist).                  *)
(***************************************************************************)
\* The (deployment, block) pairs of the blocklist that concern one of the
\* given deployments.
affected_pois_metadata(blocklist, deployments) ==
    {<<e.deployment, e.block>> : e \in {b \in blocklist : b.deployment \in SeqToSet(deployments)}}

\* The deployments for which a reported POI matches a blocked entry.
\* poi_result is a function <<deployment, block>> -> poi.
PoiBlocklistCheck(blocklist, poi_result) ==
    {k[1] : k \in {q \in DOMAIN poi_result :
        [deployment |-> q[1], block |-> q[2], poi |-> poi_result[q]] \in blocklist}}

(***************************************************************************)
(* PoiResolver (network/indexer_indexing_poi_resolver.rs).                 *)
(***************************************************************************)
EmptyMap == [k \in {} |-> None]

\* TtlHashMap::get: an entry older than the TTL is treated as absent.
TtlGetLive(cache, t, key) ==
    key \in DOMAIN cache /\ t - cache[key].at < DEFAULT_CACHE_TLL

\* The entries a later read can still return: an expired entry is never read
\* again, the clock only advances.
TtlLiveEntries(cache, t) ==
    [k \in {q \in DOMAIN cache : TtlGetLive(cache, t, q)} |-> cache[k]]

get_from_cache(cache, t, url, keys) ==
    [k \in {q \in keys : TtlGetLive(cache, t, <<url, q>>)} |-> cache[<<url, k>>].poi]

\* data is a function <<deployment, block>> -> poi
update_cache(cache, t, url, data) ==
    [ck \in DOMAIN cache \cup {<<url, k>> : k \in DOMAIN data} |->
        IF ck[1] = url /\ ck[2] \in DOMAIN data
        THEN [poi |-> data[ck[2]], at |-> t]
        ELSE cache[ck]]

\* The outcome of fetch_indexer_public_pois is either "timeout" or a function
\* <<deployment, block>> -> [ok, poi] (Result<ProofOfIndexing, PublicPoiFetchError>).
FetchTimeout == [timeout |-> TRUE, data |-> EmptyMap]
FetchOk(data) == [timeout |-> FALSE, data |-> data]

\* Mutant: a failed fetch is an error whatever the cache holds.
resolve_with_cache_NoFallback(cache, t, url, poi_requests, fetched) ==
    IF fetched.timeout
    THEN [ok |-> FALSE, pois |-> EmptyMap, cache |-> cache]
    ELSE LET fresh_info ==
                 [k \in {q \in DOMAIN fetched.data : fetched.data[q].ok} |-> fetched.data[k].poi]
             cache1 ==
                 IF DOMAIN fresh_info # {}
                 THEN update_cache(cache, t, url, fresh_info)
                 ELSE cache
         IN [ok |-> TRUE, pois |-> fresh_info, cache |-> cache1]

\* Returns [ok, pois, cache]: Err(Timeout) is ok = FALSE.
resolve_with_cache(cache, t, url, poi_requests, fetched) ==
    IF fetched.timeout
    THEN LET cached_info == get_from_cache(cache, t, url, poi_requests)
         IN IF DOMAIN cached_info = {}
            THEN [ok |-> FALSE, pois |-> EmptyMap, cache |-> cache]
            ELSE [ok |-> TRUE, pois |-> cached_info, cache |-> cache]
    ELSE LET fresh_info ==
                 [k \in {q \in DOMAIN fetched.data : fetched.data[q].ok} |-> fetched.data[k].poi]
             cache1 ==
                 IF DOMAIN fresh_info # {}
                 THEN update_cache(cache, t, url, fresh_info)
                 ELSE cache
             missing_indexings == {k \in DOMAIN fresh_info : k \notin poi_requests}
             cached_info == get_from_cache(cache1, t, url, missing_indexings)
         IN [ok |-> TRUE,
             pois |-> [k \in DOMAIN cached_info \cup DOMAIN fresh_info |->
                          IF k \in DOMAIN fresh_info THEN fresh_info[k] ELSE cached_info[k]],
             cache |-> cache1]

(***************************************************************************)
(* process_info (network/internal/indexer_processing.rs).                  *)
(*                                                                         *)
(* Every indexer is processed by its own future; the futures are joined    *)
(* with join_all, so their steps interleave at the await points.           *)
(***************************************************************************)
Url(i) == IF i = "i1" THEN "u1" ELSE "u2"

RawIndexer(i, deployments) ==
    [id |-> i,
     url |-> Url(i),
     deployments |-> deployments,
     indexings |-> [d \in SeqToSet(deployments) |->
                       [largest_allocation |-> <<"alloc", i, d>>,
                        total_allocated_tokens |-> 10]]]

\* The inputs of process_info.
RawSet ==
    { [i \in Indexers |-> RawIndexer(i, IF i = "i1" THEN <<"d1", "d2">> ELSE <<"d1">>)],
      [i \in Indexers |-> RawIndexer(i, IF i = "i1" THEN <<"d2">> ELSE <<"d1">>)] }

NoInfo == <<>>

\* The locals of an indexer's future before its first step.
ProcStart ==
    [pc |-> "addr",
     agent_version |-> <<0, 0, 0>>,
     graph_node_version |-> <<0, 0, 0>>,
     indexer_indexings |-> <<>>,
     blocked_indexings_by_poi |-> {},
     indexer_progress |-> EmptyMap,
     status |-> "pending",
     err |-> None,
     info |-> NoInfo]

\* The future returns (indexer_id, Err(err)): its locals are dropped.
ReturnErr(err) == [ProcStart EXCEPT !.pc = "done", !.status = "err", !.err = err]

\* History of the resolver calls of an indexer: the resolver, the kind of its
\* outcome ("ok", "timeout", "fail") and, for the version, POI and cost model
\* resolvers, the outcome itself.
Call(i, resolver, kind, outcome) ==
    calls' = [calls EXCEPT ![i] = Append(@, <<resolver, kind, outcome>>)]

InitPI ==
    /\ InitCfg
    /\ raw \in RawSet
    /\ proc = [i \in Indexers |-> ProcStart]
    /\ host_resolver_lock = None
    /\ poi_resolver_lock = None
    /\ poi_cache = EmptyMap
    /\ now = 0
    /\ calls = [i \in Indexers |-> <<>>]
    /\ refresh = 1
    /\ min_scalar_tap_version = <<0, 0, 0>>
    /\ topology = None
    /\ fu = None
    /\ network = None
    /\ InitSignerIdle
    /\ InitRequestIdle
    /\ InitFetchIdle
    /\ InitReadyIdle
    /\ InitManifestIdle

\* Mutant: the address blocklist is never consulted.
AddrBlockedNever(blocklist, id) == FALSE

\* check_indexer_blocked_by_addr_blocklist
AddrBlocked(blocklist, id) == blocklist.some /\ id \in blocklist.v

CheckAddrBlocklist(i) ==
    /\ proc[i].pc = "addr"
    /\ proc' = [proc EXCEPT ![i] =
                   IF AddrBlocked(addr_blocklist, raw[i].id)
                   THEN ReturnErr("BlockedByAddrBlocklist")
                   ELSE [@ EXCEPT !.pc = "host_lock"]]
    /\ UNCHANGED <<notPI, cfgVars, raw, host_resolver_lock, poi_resolver_lock, poi_cache, now,
                   calls, refresh>>

\* resolve_and_check_indexer_blocked_by_host_blocklist: resolver.lock().await
HostLock(i) ==
    /\ proc[i].pc = "host_lock"
    /\ host_resolver_lock = None
    /\ host_resolver_lock' = i
    /\ proc' = [proc EXCEPT ![i].pc = "host"]
    /\ UNCHANGED <<notPI, cfgVars, raw, poi_resolver_lock, poi_cache, now, calls, refresh>>

HostOutcomes == {"timeout", "fail"} \cup IpAddrs

OutcomeKind(o) == IF o \in {"timeout", "fail"} THEN o ELSE "ok"

HostBlocked(blocklist, ip) == blocklist.some /\ ip \in blocklist.v

\* Mutant: a timed out resolution is not taken as an error.
HostResolutionFailedNoTimeout(o) == o = "fail"

\* resolve_url(..).await?: a failed or timed out resolution is an error
HostResolutionFailed(o) == o \in {"timeout", "fail"}

\* ... .resolve_url(&indexer.url).await? and the host blocklist check; the
\* guard of the resolver's mutex is a temporary dropped with the statement.
HostResolve(i) ==
    /\ proc[i].pc = "host"
    /\ host_resolver_lock = i
    /\ \E o \in HostOutcomes :
        /\ Call(i, "host", OutcomeKind(o), OutcomeKind(o))
        /\ proc' = [proc EXCEPT ![i] =
                       IF HostResolutionFailed(o)
                       THEN ReturnErr("HostResolutionFailed")
                       ELSE IF HostBlocked(host_blocklist, o)
                       THEN ReturnErr("BlockedByHostBlocklist")
                       ELSE [@ EXCEPT !.pc = "agent_version"]]
    /\ host_resolver_lock' = None
    /\ UNCHANGED <<notPI, cfgVars, raw, poi_resolver_lock, poi_cache, now, refresh>>

VersionOutcomes == {<<"timeout">>, <<"fail">>} \cup Versions

VersionOutcomeKind(o) == IF Len(o) = 1 THEN o[1] ELSE "ok"

\* Mutant: only the major version is compared.
AgentVersionBelowMinMajorOnly(v, requirements) == v[1] < requirements.min_agent_version[1]

\* agent_version < version_requirements.min_agent_version
AgentVersionBelowMin(v, requirements) == VersionLt(v, requirements.min_agent_version)

\* graph_node_version < version_requirements.min_graph_node_version
GraphNodeVersionBelowMin(v, requirements) == VersionLt(v, requirements.min_graph_node_version)

\* resolve_and_check_indexer_blocked_by_version: the agent version
ResolveAgentVersion(i) ==
    /\ proc[i].pc = "agent_version"
    /\ \E o \in VersionOutcomes :
        /\ Call(i, "agent_version", VersionOutcomeKind(o), o)
        /\ proc' = [proc EXCEPT ![i] =
                       IF VersionOutcomeKind(o) # "ok"
                       THEN ReturnErr("AgentVersionResolutionFailed")
                       ELSE IF AgentVersionBelowMin(o, version_requirements)
                       THEN ReturnErr("AgentVersionBelowMin")
                       ELSE [@ EXCEPT !.pc = "graph_node_version", !.agent_version = o]]
    /\ UNCHANGED <<notPI, cfgVars, raw, host_resolver_lock, poi_resolver_lock, poi_cache, now,
                   refresh>>

\* Mutant: a failed resolution yields the lowest version.
GraphNodeVersionOrZero(o, requirements) ==
    IF VersionOutcomeKind(o) # "ok" THEN <<0, 0, 0>> ELSE o

\* The graph-node version the check uses: the minimum when the resolution failed.
GraphNodeVersionOrMin(o, requirements) ==
    IF VersionOutcomeKind(o) # "ok" THEN requirements.min_graph_node_version ELSE o

\* resolve_and_check_indexer_blocked_by_version: the graph-node version
ResolveGraphNodeVersion(i) ==
    /\ proc[i].pc = "graph_node_version"
    /\ \E o \in VersionOutcomes :
        LET graph_node_version == GraphNodeVersionOrMin(o, version_requirements) IN
        /\ Call(i, "graph_node_version", VersionOutcomeKind(o), o)
        /\ proc' = [proc EXCEPT ![i] =
                       IF GraphNodeVersionBelowMin(graph_node_version, version_requirements)
                       THEN ReturnErr("GraphNodeVersionBelowMin")
                       ELSE [@ EXCEPT !.pc = "poi",
                                      !.graph_node_version = graph_node_version,
                                      !.indexer_indexings =
                                          SetToSeq(DOMAIN raw[i].indexings)]]
    /\ UNCHANGED <<notPI, cfgVars, raw, host_resolver_lock, poi_resolver_lock, poi_cache, now,
                   refresh>>

\* The possible outcomes of fetch_indexer_public_pois for the requested keys:
\* a timeout, or an answer for each of the keys, a POI or a fetch error.
PoiAnswers == {[ok |-> TRUE, poi |-> p] : p \in Pois} \cup {[ok |-> FALSE, poi |-> None]}

FetchOutcomes(requests) ==
    {FetchTimeout} \cup {FetchOk(f) : f \in [requests -> PoiAnswers]}

\* After the POI check: retain the indexings that are not blocked.
AfterPoi(p, blocked) ==
    LET retained == Retain(p.indexer_indexings, SeqToSet(p.indexer_indexings) \ blocked) IN
    IF retained = <<>>
    THEN ReturnErr("AllIndexingsBlockedByPoiBlocklist")
    ELSE [p EXCEPT !.pc = "progress",
                   !.blocked_indexings_by_poi = blocked,
                   !.indexer_indexings = retained]

PoiAffected(i) == affected_pois_metadata(poi_blocklist.v, raw[i].deployments)

\* resolve_and_check_indexer_indexings_blocked_by_poi: no blocklist, or no
\* affected deployment: nothing is resolved and nothing is blocked.
PoiNotAffected(i) ==
    /\ proc[i].pc = "poi"
    /\ ~poi_blocklist.some \/ PoiAffected(i) = {}
    /\ proc' = [proc EXCEPT ![i] = AfterPoi(@, {})]
    /\ UNCHANGED <<notPI, cfgVars, raw, host_resolver_lock, poi_resolver_lock, poi_cache, now,
                   calls, refresh>>

\* pois_resolver.lock().await
PoiLock(i) ==
    /\ proc[i].pc = "poi"
    /\ poi_blocklist.some /\ PoiAffected(i) # {}
    /\ poi_resolver_lock = None
    /\ poi_resolver_lock' = i
    /\ proc' = [proc EXCEPT ![i].pc = "poi_resolve"]
    /\ UNCHANGED <<notPI, cfgVars, raw, host_resolver_lock, poi_cache, now, calls, refresh>>

\* The indexings among `indexings` that the blocklist check reports as blocked.
BlockedIndexings(blocklist, poi_result, indexings) ==
    {id \in SeqToSet(indexings) : id \in PoiBlocklistCheck(blocklist, poi_result)}

\* pois_resolver.resolve(&indexer.url, &indexer_affected_pois).await? and the
\* blocklist check of the result.
PoiResolve(i) ==
    /\ proc[i].pc = "poi_resolve"
    /\ poi_resolver_lock = i
    /\ \E fetched \in FetchOutcomes(PoiAffected(i)) :
        LET r == resolve_with_cache(poi_cache, now, raw[i].url, PoiAffected(i), fetched) IN
        /\ Call(i, "poi", IF fetched.timeout THEN "timeout" ELSE "ok", fetched)
        /\ poi_cache' = r.cache
        /\ proc' = [proc EXCEPT ![i] =
                       IF ~r.ok
                       THEN ReturnErr("IndexingPoisResolutionFailed")
                       ELSE AfterPoi(@, BlockedIndexings(poi_blocklist.v, r.pois,
                                                         @.indexer_indexings))]
    /\ poi_resolver_lock' = None
    /\ UNCHANGED <<notPI, cfgVars, raw, host_resolver_lock, now, refresh>>

\* The progress an indexer reports for an indexing.
ProgressInfo == [latest_block |-> 100, min_block |-> None]
NoProgress == [latest_block |-> 0, min_block |-> None]

\* The outcomes of IndexingProgressResolver::resolve: an error, or the set of
\* the requested deployments for which progress was reported.
ProgressOutcomes(indexings) ==
    {[kind |-> k, resolved |-> {}] : k \in {"timeout", "fail"}} \cup
    {[kind |-> "ok", resolved |-> S] : S \in SUBSET SeqToSet(indexings)}

\* Mutant: only the indexings the resolver answered for get an entry.
resolve_indexer_progress_ResolvedOnly(indexings, progress_info) ==
    [id \in SeqToSet(indexings) \cap progress_info |->
        [ok |-> TRUE, progress |-> ProgressInfo]]

\* resolve_indexer_progress: an entry for every requested indexing.
resolve_indexer_progress(indexings, progress_info) ==
    [id \in SeqToSet(indexings) |->
        IF id \in progress_info
        THEN [ok |-> TRUE, progress |-> ProgressInfo]
        ELSE [ok |-> FALSE, progress |-> NoProgress]]

\* Mutant: the indexings are retained whether or not progress was found.
WithProgressAll(indexer_progress) == DOMAIN indexer_progress

\* indexer_indexings.retain(|id| matches!(indexer_progress.get(id), Some(Ok(_))))
WithProgress(indexer_progress) ==
    {id \in DOMAIN indexer_progress : indexer_progress[id].ok}

ResolveProgress(i) ==
    /\ proc[i].pc = "progress"
    /\ \E o \in ProgressOutcomes(proc[i].indexer_indexings) :
        LET indexer_progress == resolve_indexer_progress(proc[i].indexer_indexings, o.resolved)
            retained == Retain(proc[i].indexer_indexings, WithProgress(indexer_progress))
        IN
        /\ Call(i, "progress", o.kind, o.kind)
        /\ proc' = [proc EXCEPT ![i] =
                       IF o.kind # "ok"
                       THEN ReturnErr("IndexingProgressResolutionFailed")
                       ELSE IF retained = <<>>
                       THEN ReturnErr("IndexingProgressUnavailable")
                       ELSE [@ EXCEPT !.pc = "cost_models",
                                      !.indexer_progress = indexer_progress,
                                      !.indexer_indexings = retained]]
    /\ UNCHANGED <<notPI, cfgVars, raw, host_resolver_lock, poi_resolver_lock, poi_cache, now,
                   refresh>>

\* The outcomes of CostModelResolver::resolve: an error, no source at all, or
\* a source for each of the requested deployments, which compiles or does not.
CostModelOutcomes(indexings) ==
    {[kind |-> k, sources |-> EmptyMap] : k \in {"timeout", "fail", "ok"}} \cup
    {[kind |-> "ok", sources |-> f] : f \in [SeqToSet(indexings) -> {"valid", "invalid"}]}

\* Mutant: one source that does not compile drops every cost model.
resolve_indexer_cost_models_AllOrNothing(o) ==
    IF o.kind # "ok" \/ \E d \in DOMAIN o.sources : o.sources[d] # "valid" THEN {}
    ELSE DOMAIN o.sources

\* resolve_indexer_cost_models: the deployments with a compiled cost model.
resolve_indexer_cost_models(o) ==
    IF o.kind # "ok" THEN {}
    ELSE {d \in DOMAIN o.sources : o.sources[d] = "valid"}

\* One entry of IndexerInfo.indexings.
IndexingEntry(p, id, info, cost_models) ==
    IF id \in p.blocked_indexings_by_poi
    THEN [status |-> "BlockedByPoiBlocklist", largest_allocation |-> None,
          total_allocated_tokens |-> 0, progress |-> NoProgress, cost_model |-> None]
    ELSE IF ~p.indexer_progress[id].ok
    THEN [status |-> "ProgressNotFound", largest_allocation |-> None,
          total_allocated_tokens |-> 0, progress |-> NoProgress, cost_model |-> None]
    ELSE [status |-> "Ok",
          largest_allocation |-> info.largest_allocation,
          total_allocated_tokens |-> info.total_allocated_tokens,
          progress |-> p.indexer_progress[id].progress,
          cost_model |-> IF id \in cost_models THEN "compiled" ELSE None]

\* .expect("indexing progress not found") panics for such an indexing
ProgressMissing(p, indexings) ==
    \E id \in DOMAIN indexings :
        id \notin p.blocked_indexings_by_poi /\ id \notin DOMAIN p.indexer_progress

\* The construction of IndexerInfo
BuildIndexerInfo(p, indexer, cost_models) ==
    [id |-> indexer.id,
     url |-> indexer.url,
     deployments |-> indexer.deployments,
     indexer_agent_version |-> p.agent_version,
     graph_node_version |-> p.graph_node_version,
     indexings |-> [id \in DOMAIN indexer.indexings |->
                       IndexingEntry(p, id, indexer.indexings[id], cost_models)]]

ResolveCostModels(i) ==
    /\ proc[i].pc = "cost_models"
    /\ \E o \in CostModelOutcomes(proc[i].indexer_indexings) :
        /\ Call(i, "cost_models", o.kind, o.sources)
        /\ proc' = [proc EXCEPT ![i] =
                       IF ProgressMissing(@, raw[i].indexings)
                       THEN [ProcStart EXCEPT !.pc = "done", !.status = "panic"]
                       ELSE [ProcStart EXCEPT
                                !.pc = "done",
                                !.status = "ok",
                                !.info = BuildIndexerInfo(proc[i], raw[i],
                                             resolve_indexer_cost_models(o))]]
    /\ UNCHANGED <<notPI, cfgVars, raw, host_resolver_lock, poi_resolver_lock, poi_cache, now,
                   refresh>>

\* join_all has returned; the next refresh runs process_info again with the
\* same resolvers (and so with the same POI cache), some time later.  The
\* entries of the cache that have expired by then are left out of the state.
NextRefresh ==
    /\ \A i \in Indexers : proc[i].pc = "done"
    /\ refresh < MaxRefresh
    /\ refresh' = refresh + 1
    /\ \E e \in 0..MaxElapsed : now' = now + e
    /\ poi_cache' = TtlLiveEntries(poi_cache, now')
    /\ proc' = [i \in Indexers |-> ProcStart]
    /\ calls' = [i \in Indexers |-> <<>>]
    /\ UNCHANGED <<notPI, cfgVars, raw, host_resolver_lock, poi_resolver_lock>>

NextPI ==
    \/ \E i \in Indexers :
        \/ CheckAddrBlocklist(i)
        \/ HostLock(i)
        \/ HostResolve(i)
        \/ ResolveAgentVersion(i)
        \/ ResolveGraphNodeVersion(i)
        \/ PoiNotAffected(i)
        \/ PoiLock(i)
        \/ PoiResolve(i)
        \/ ResolveProgress(i)
        \/ ResolveCostModels(i)
    \/ NextRefresh

SpecPI == InitPI /\ [][NextPI]_vars

\* process_info on indexers that are registered with the same URL: the input
\* is keyed by the indexer address, and nothing makes the URLs distinct.
RawSharedUrl == [i \in Indexers |-> [RawIndexer(i, <<"d1">>) EXCEPT !.url = "u1"]]

InitSU ==
    /\ addr_blocklist \in {NoneOf({}), Some({"i2"})}
    /\ host_blocklist = NoneOf({})
    /\ version_requirements \in VersionRequirementsSet
    /\ poi_blocklist \in PoiBlocklistSet
    /\ raw = RawSharedUrl
    /\ proc = [i \in Indexers |-> ProcStart]
    /\ host_resolver_lock = None
    /\ poi_resolver_lock = None
    /\ poi_cache = EmptyMap
    /\ now = 0
    /\ calls = [i \in Indexers |-> <<>>]
    /\ refresh = 1
    /\ min_scalar_tap_version = <<0, 0, 0>>
    /\ topology = None
    /\ fu = None
    /\ network = None
    /\ InitSignerIdle
    /\ InitRequestIdle
    /\ InitFetchIdle
    /\ InitReadyIdle
    /\ InitManifestIdle

SpecSU == InitSU /\ [][NextPI]_vars

(***************************************************************************)
(* fetch_update (network/internal.rs): process_indexers_info and           *)
(* construct_network_topology_snapshot.                                    *)
(***************************************************************************)
LEGACY_SCALAR_TAP_VERSION == <<0, 0, 0>>

\* The versions an indexer may report to fetch_update.
FUVersions == Versions \cup {<<0, 0, 0>>, <<1, 0, 0>>}

\* types::IndexerInfo as try_into_internal_indexer_info returns it.
InternalIndexerInfo(i, deployments) ==
    [id |-> i,
     url |-> Url(i),
     deployments |-> deployments,
     indexer_agent_version |-> <<0, 0, 0>>,
     scalar_tap_version |-> <<0, 0, 0>>,
     graph_node_version |-> <<0, 0, 0>>,
     legacy_scalar |-> FALSE,
     largest_allocation |-> [d \in SeqToSet(deployments) |-> <<"alloc", i, d>>],
     total_allocated_tokens |-> [d \in SeqToSet(deployments) |-> 10],
     indexings_status |-> EmptyMap,
     indexings_cost_models |-> {}]

U8_MAX == 255

AllocationInfo(i, d) == [id |-> <<"alloc", i, d>>, indexer |-> i]

\* types::DeploymentInfo: the allocations name indexers, also indexers that
\* the pre-processing filtered out ("i3").
DeploymentInfoOf(d) ==
    [id |-> d,
     allocations |->
        IF d = "d1"
        THEN <<AllocationInfo("i1", d), AllocationInfo("i2", d), AllocationInfo("i3", d)>>
        ELSE <<AllocationInfo("i2", d), AllocationInfo("i1", d)>>,
     manifest_network |-> "mainnet",
     manifest_start_block |-> 0,
     transferred_to_l2 |-> FALSE]

\* A version number more than u8::MAX above version 1.
FarVersion == U8_MAX + 45

SubgraphVersionInfo(version, d) == [version |-> version, deployment |-> DeploymentInfoOf(d)]

\* The inputs of process_indexers_info and construct_network_topology_snapshot:
\* the indexers (Vec1<IndexerInfo>, unique ids) and the subgraphs
\* (Vec1<SubgraphInfo>, versions newest first).
TopologySet ==
    { [indexers |-> [i \in Indexers |->
                        InternalIndexerInfo(i, IF i = "i1" THEN <<"d1", "d2">> ELSE <<"d1">>)],
       subgraphs |-> << [id |-> "s1",
                         versions |-> <<SubgraphVersionInfo(FarVersion, "d1"),
                                        SubgraphVersionInfo(1, "d2")>>],
                        [id |-> "s2",
                         versions |-> <<SubgraphVersionInfo(1, "d2")>>] >>],
      [indexers |-> [i \in Indexers |->
                        InternalIndexerInfo(i, IF i = "i1" THEN <<"d1">> ELSE <<"d2">>)],
       subgraphs |-> << [id |-> "s1",
                         versions |-> <<SubgraphVersionInfo(3, "d1"),
                                        SubgraphVersionInfo(2, "d2"),
                                        SubgraphVersionInfo(1, "d1")>>] >>] }

FuStart(indexer) == [pc |-> "addr", kept |-> FALSE, indexer |-> indexer]

\* The future returns None: the indexer is filtered out.
FuNone(f) == [pc |-> "done", kept |-> FALSE, indexer |-> InternalIndexerInfo(f.indexer.id, <<>>)]

NoNetwork == [status |-> "pending", subgraphs |-> EmptyMap, deployments |-> EmptyMap]

InitFU ==
    /\ InitCfg
    /\ min_scalar_tap_version = <<0, 10, 0>>
    /\ topology \in TopologySet
    /\ fu = [i \in Indexers |-> FuStart(topology.indexers[i])]
    /\ network = NoNetwork
    /\ host_resolver_lock = None
    /\ poi_resolver_lock = None
    /\ calls = [i \in Indexers |-> <<>>]
    /\ raw = None
    /\ proc = None
    /\ poi_cache = EmptyMap
    /\ now = 0
    /\ refresh = 0
    /\ InitSignerIdle
    /\ InitRequestIdle
    /\ InitFetchIdle
    /\ InitReadyIdle
    /\ InitManifestIdle

\* check_indexer_blocked_by_addr_blocklist
FuCheckAddrBlocklist(i) ==
    /\ fu[i].pc = "addr"
    /\ fu' = [fu EXCEPT ![i] =
                 IF AddrBlocked(addr_blocklist, @.indexer.id)
                 THEN FuNone(@)
                 ELSE [@ EXCEPT !.pc = "host_lock"]]
    /\ UNCHANGED <<notFU, cfgVars, lockVars, calls, min_scalar_tap_version, topology, network>>

\* check_indexer_blocked_by_host_blocklist: host_resolver.lock().await
FuHostLock(i) ==
    /\ fu[i].pc = "host_lock"
    /\ host_resolver_lock = None
    /\ host_resolver_lock' = i
    /\ fu' = [fu EXCEPT ![i].pc = "host"]
    /\ UNCHANGED <<notFU, cfgVars, poi_resolver_lock, calls, min_scalar_tap_version,
                   topology, network>>

\* check_indexer_blocked_by_host_blocklist: the resolution, bounded by
\* INDEXER_HOST_RESOLUTION_TIMEOUT, and the blocklist check
FuHostResolve(i) ==
    /\ fu[i].pc = "host"
    /\ host_resolver_lock = i
    /\ \E o \in HostOutcomes :
        /\ Call(i, "host", OutcomeKind(o), OutcomeKind(o))
        /\ fu' = [fu EXCEPT ![i] =
                     IF o = "timeout" \/ o = "fail"
                     THEN FuNone(@)
                     ELSE IF HostBlocked(host_blocklist, o)
                     THEN FuNone(@)
                     ELSE [@ EXCEPT !.pc = "agent_version"]]
    /\ host_resolver_lock' = None
    /\ UNCHANGED <<notFU, cfgVars, poi_resolver_lock, min_scalar_tap_version, topology,
                   network>>

FuVersionOutcomes == {<<"timeout">>, <<"fail">>} \cup FUVersions

\* agent_version > *min_scalar_tap_version
VersionGt(a, b) == VersionLt(b, a)

\* The indexer's scalar_tap version
ScalarTapVersion(agent_version, min_tap_version) ==
    IF VersionGt(agent_version, min_tap_version)
    THEN agent_version
    ELSE LEGACY_SCALAR_TAP_VERSION

\* check_indexer_blocked_by_version: the agent version
FuResolveAgentVersion(i) ==
    /\ fu[i].pc = "agent_version"
    /\ \E o \in FuVersionOutcomes :
        /\ Call(i, "agent_version", VersionOutcomeKind(o), o)
        /\ fu' = [fu EXCEPT ![i] =
                     IF VersionOutcomeKind(o) # "ok"
                     THEN FuNone(@)
                     ELSE IF VersionLt(o, version_requirements.min_agent_version)
                     THEN FuNone(@)
                     \* the local agent_version is kept in the record until it is set
                     ELSE [@ EXCEPT !.pc = "graph_node_version",
                                    !.indexer.indexer_agent_version = o]]
    /\ UNCHANGED <<notFU, cfgVars, lockVars, min_scalar_tap_version, topology, network>>

\* check_indexer_blocked_by_version: the graph-node version; sets the versions
FuResolveGraphNodeVersion(i) ==
    /\ fu[i].pc = "graph_node_version"
    /\ \E o \in VersionOutcomes :
        LET graph_node_version ==
                IF VersionOutcomeKind(o) = "fail"
                THEN version_requirements.min_graph_node_version
                ELSE o
            scalar_tap_version ==
                ScalarTapVersion(fu[i].indexer.indexer_agent_version, min_scalar_tap_version)
        IN
        /\ Call(i, "graph_node_version", VersionOutcomeKind(o), o)
        /\ fu' = [fu EXCEPT ![i] =
                     IF VersionOutcomeKind(o) = "timeout"
                     THEN FuNone(@)
                     ELSE IF VersionLt(graph_node_version,
                                       version_requirements.min_graph_node_version)
                     THEN FuNone(@)
                     ELSE [@ EXCEPT !.pc = "poi",
                                    !.indexer.scalar_tap_version = scalar_tap_version,
                                    !.indexer.graph_node_version = graph_node_version,
                                    !.indexer.legacy_scalar =
                                        (scalar_tap_version = LEGACY_SCALAR_TAP_VERSION)]]
    /\ UNCHANGED <<notFU, cfgVars, lockVars, min_scalar_tap_version, topology, network>>

FuPoiAffected(i) == affected_pois_metadata(poi_blocklist.v, fu[i].indexer.deployments)

\* check_indexer_blocked_by_poi: no blocklist, or no affected deployment
FuPoiNotAffected(i) ==
    /\ fu[i].pc = "poi"
    /\ ~poi_blocklist.some \/ FuPoiAffected(i) = {}
    /\ fu' = [fu EXCEPT ![i].pc = "indexing_status"]
    /\ UNCHANGED <<notFU, cfgVars, lockVars, calls, min_scalar_tap_version, topology, network>>

\* check_indexer_blocked_by_poi: pois_resolver.lock().await
FuPoiLock(i) ==
    /\ fu[i].pc = "poi"
    /\ poi_blocklist.some /\ FuPoiAffected(i) # {}
    /\ poi_resolver_lock = None
    /\ poi_resolver_lock' = i
    /\ fu' = [fu EXCEPT ![i].pc = "poi_resolve"]
    /\ UNCHANGED <<notFU, cfgVars, host_resolver_lock, calls, min_scalar_tap_version,
                   topology, network>>

\* The POIs of a fetch outcome: the keys answered with a POI.
ReportedPois(fetched) ==
    [k \in {q \in DOMAIN fetched.data : fetched.data[q].ok} |-> fetched.data[k].poi]

\* Mutant: the retain keeps every deployment.
PoiAllowedDeploymentsAll(blocklist, poi_result, deployments) == SeqToSet(deployments)

\* indexer.deployments.retain(..): the deployments the check does not report
\* as blocked
PoiAllowedDeployments(blocklist, poi_result, deployments) ==
    SeqToSet(deployments) \ PoiBlocklistCheck(blocklist, poi_result)

\* check_indexer_blocked_by_poi: the resolution, bounded by
\* INDEXER_POI_RESOLUTION_TIMEOUT, and the blocklist check
FuPoiResolve(i) ==
    /\ fu[i].pc = "poi_resolve"
    /\ poi_resolver_lock = i
    /\ \E fetched \in FetchOutcomes(FuPoiAffected(i)) :
        LET retained == Retain(fu[i].indexer.deployments,
                               PoiAllowedDeployments(poi_blocklist.v, ReportedPois(fetched),
                                                     fu[i].indexer.deployments))
        IN
        /\ Call(i, "poi", IF fetched.timeout THEN "timeout" ELSE "ok", fetched)
        /\ fu' = [fu EXCEPT ![i] =
                     IF fetched.timeout
                     THEN FuNone(@)
                     ELSE IF retained = <<>>
                     THEN FuNone(@)
                     ELSE [@ EXCEPT !.pc = "indexing_status",
                                    !.indexer.deployments = retained]]
    /\ poi_resolver_lock' = None
    /\ UNCHANGED <<notFU, cfgVars, host_resolver_lock, min_scalar_tap_version, topology,
                   network>>

\* resolve_indexer_indexing_status_and_cost_models: the indexing status,
\* bounded by INDEXER_INDEXING_STATUS_RESOLUTION_TIMEOUT
FuResolveIndexingStatus(i) ==
    /\ fu[i].pc = "indexing_status"
    /\ \E o \in ProgressOutcomes(fu[i].indexer.deployments) :
        /\ Call(i, "indexing_status", o.kind, o.kind)
        /\ fu' = [fu EXCEPT ![i] =
                     IF o.kind # "ok"
                     THEN FuNone(@)
                     \* the local indexings_status is kept in the record until it is set
                     ELSE [@ EXCEPT !.pc = "cost_models",
                                    !.indexer.indexings_status =
                                        [d \in o.resolved |-> ProgressInfo]]]
    /\ UNCHANGED <<notFU, cfgVars, lockVars, min_scalar_tap_version, topology, network>>

\* The outcomes of the cost model resolution of fetch_update: a timeout or a
\* map of sources (the resolver returns no error).
FuCostModelOutcomes(deployments) ==
    {o \in CostModelOutcomes(deployments) : o.kind # "fail"}

\* resolve_indexer_indexing_status_and_cost_models: the cost models, bounded by
\* INDEXER_COST_MODEL_RESOLUTION_TIMEOUT; sets the status and the cost models
FuResolveCostModels(i) ==
    /\ fu[i].pc = "cost_models"
    /\ \E o \in FuCostModelOutcomes(fu[i].indexer.deployments) :
        /\ Call(i, "cost_models", o.kind, o.kind)
        /\ fu' = [fu EXCEPT ![i] =
                     IF o.kind = "timeout"
                     THEN FuNone(@)
                     ELSE [@ EXCEPT !.pc = "done",
                                    !.kept = TRUE,
                                    !.indexer.indexings_cost_models =
                                        {d \in DOMAIN o.sources : o.sources[d] = "valid"}]]
    /\ UNCHANGED <<notFU, cfgVars, lockVars, min_scalar_tap_version, topology, network>>

(***************************************************************************)
(* construct_network_topology_snapshot                                     *)
(***************************************************************************)
\* highest_version_number.saturating_sub(version).try_into().unwrap_or(u8::MAX)
\* Mutant: the difference is not saturated to u8::MAX.
VersionsBehindUnsaturated(highest_version_number, version) ==
    IF highest_version_number >= version
    THEN highest_version_number - version ELSE 0

VersionsBehind(highest_version_number, version) ==
    LET diff == IF highest_version_number >= version
                THEN highest_version_number - version ELSE 0
    IN IF diff > U8_MAX THEN U8_MAX ELSE diff

\* versions_behind_table: collected into a map, so of several versions with
\* the same deployment the last one of the list stays.
versions_behind_table(versions) ==
    LET highest_version_number == versions[1].version
        ids == {versions[k].deployment.id : k \in 1..Len(versions)}
        last(d) == CHOOSE k \in 1..Len(versions) :
                      /\ versions[k].deployment.id = d
                      /\ \A j \in 1..Len(versions) : versions[j].deployment.id = d => j <= k
    IN [d \in ids |-> VersionsBehind(highest_version_number, versions[last(d)].version)]

\* indexings_indexers_table: the Indexer of the snapshot
SnapshotIndexer(indexer) ==
    [id |-> indexer.id,
     url |-> indexer.url,
     indexer_agent_version |-> indexer.indexer_agent_version,
     graph_node_version |-> indexer.graph_node_version,
     legacy_scalar |-> indexer.legacy_scalar,
     indexings |-> SeqToSet(indexer.deployments)]

\* Mutant: the indexer's healthy deployments list is not consulted.
IndexingAllocationsNoHealthy(indexers_info_table, deployment) ==
    {k \in 1..Len(deployment.allocations) :
        LET indexing_indexer_id == deployment.allocations[k].indexer IN
        /\ indexing_indexer_id \in DOMAIN indexers_info_table
        /\ deployment.id \in DOMAIN indexers_info_table[indexing_indexer_id].largest_allocation
        /\ deployment.id \in
               DOMAIN indexers_info_table[indexing_indexer_id].total_allocated_tokens}

\* The filter_map over the allocations of a deployment: the allocations whose
\* indexer is in the table and lists the deployment.
IndexingAllocations(indexers_info_table, deployment) ==
    {k \in 1..Len(deployment.allocations) :
        LET indexing_indexer_id == deployment.allocations[k].indexer IN
        /\ indexing_indexer_id \in DOMAIN indexers_info_table
        /\ deployment.id \in SeqToSet(indexers_info_table[indexing_indexer_id].deployments)
        /\ deployment.id \in DOMAIN indexers_info_table[indexing_indexer_id].largest_allocation
        /\ deployment.id \in
               DOMAIN indexers_info_table[indexing_indexer_id].total_allocated_tokens}

\* The Indexing built for an allocation's indexer on a deployment.
BuildIndexing(indexers_info_table, indexer_id, deployment_id, versions_behind) ==
    LET info == indexers_info_table[indexer_id] IN
    [id |-> <<indexer_id, deployment_id>>,
     versions_behind |-> versions_behind,
     largest_allocation |-> info.largest_allocation[deployment_id],
     total_allocated_tokens |-> info.total_allocated_tokens[deployment_id],
     indexer |-> SnapshotIndexer(info),
     status |-> IF deployment_id \in DOMAIN info.indexings_status
                THEN Some(info.indexings_status[deployment_id])
                ELSE NoneOf(NoProgress),
     cost_model |-> IF deployment_id \in info.indexings_cost_models
                    THEN "compiled" ELSE None]

\* The indexings of a deployment, as a map keyed by the indexing id.
DeploymentIndexings(indexers_info_table, deployment, versions_behind) ==
    LET ids == {<<deployment.allocations[k].indexer, deployment.id>> :
                   k \in IndexingAllocations(indexers_info_table, deployment)}
    IN [id \in ids |-> BuildIndexing(indexers_info_table, id[1], id[2], versions_behind)]

\* subgraph_indexings: the indexings of all the versions of a subgraph
SubgraphIndexings(indexers_info_table, subgraph) ==
    LET table == versions_behind_table(subgraph.versions)
        of(k) == DeploymentIndexings(indexers_info_table, subgraph.versions[k].deployment,
                                     table[subgraph.versions[k].deployment.id])
        ids == UNION {DOMAIN of(k) : k \in 1..Len(subgraph.versions)}
    IN [id \in ids |->
           LET k == CHOOSE j \in 1..Len(subgraph.versions) : id \in DOMAIN of(j)
           IN of(k)[id]]

\* Mutant: the subgraphs without indexings are not left out.
SnapshotSubgraphsKeepAll(indexers_info_table, subgraphs) ==
    LET kept == 1..Len(subgraphs)
        idx(sid) == CHOOSE k \in kept :
                       /\ subgraphs[k].id = sid
                       /\ \A j \in kept : subgraphs[j].id = sid => j <= k
    IN [sid \in {subgraphs[k].id : k \in kept} |->
           LET subgraph_indexings == SubgraphIndexings(indexers_info_table, subgraphs[idx(sid)])
           IN [id |-> sid,
               chain |-> subgraphs[idx(sid)].versions[1].deployment.manifest_network,
               start_block |-> subgraphs[idx(sid)].versions[1].deployment.manifest_start_block,
               deployments |-> {id[2] : id \in DOMAIN subgraph_indexings},
               indexings |-> subgraph_indexings]]

\* The topology subgraphs table: subgraphs without indexings are left out.
SnapshotSubgraphs(indexers_info_table, subgraphs) ==
    LET kept == {k \in 1..Len(subgraphs) :
                    DOMAIN SubgraphIndexings(indexers_info_table, subgraphs[k]) # {}}
        idx(sid) == CHOOSE k \in kept :
                       /\ subgraphs[k].id = sid
                       /\ \A j \in kept : subgraphs[j].id = sid => j <= k
    IN [sid \in {subgraphs[k].id : k \in kept} |->
           LET subgraph_indexings == SubgraphIndexings(indexers_info_table, subgraphs[idx(sid)])
           IN [id |-> sid,
               chain |-> subgraphs[idx(sid)].versions[1].deployment.manifest_network,
               start_block |-> subgraphs[idx(sid)].versions[1].deployment.manifest_start_block,
               deployments |-> {id[2] : id \in DOMAIN subgraph_indexings},
               indexings |-> subgraph_indexings]]

\* deployments_info_table
DeploymentsInfoTable(subgraphs) ==
    LET occ == {<<k, j>> \in (1..Len(subgraphs)) \X (1..3) : j <= Len(subgraphs[k].versions)}
        ids == {subgraphs[o[1]].versions[o[2]].deployment.id : o \in occ}
    IN [d \in ids |->
           LET o == CHOOSE q \in occ : subgraphs[q[1]].versions[q[2]].deployment.id = d
           IN subgraphs[o[1]].versions[o[2]].deployment]

\* Mutant: no deployment of the deployments info table is left out.
SnapshotDeploymentsKeepAll(indexers_info_table, subgraphs, snapshot_subgraphs) ==
    LET table == DeploymentsInfoTable(subgraphs)
        referring(d) == {sid \in DOMAIN snapshot_subgraphs :
                            d \in snapshot_subgraphs[sid].deployments}
        kept == DOMAIN table
    IN [d \in kept |->
           [id |-> d,
            chain |-> table[d].manifest_network,
            start_block |-> table[d].manifest_start_block,
            subgraphs |-> referring(d),
            indexings |-> DeploymentIndexings(indexers_info_table, table[d], 0)]]

\* Mutant: a deployment is left out as soon as one of its allocations gives
\* no indexing.
SnapshotDeploymentsAllAllocated(indexers_info_table, subgraphs, snapshot_subgraphs) ==
    LET table == DeploymentsInfoTable(subgraphs)
        referring(d) == {sid \in DOMAIN snapshot_subgraphs :
                            d \in snapshot_subgraphs[sid].deployments}
        kept == {d \in DOMAIN table :
                    /\ IndexingAllocations(indexers_info_table, table[d])
                           = 1..Len(table[d].allocations)
                    /\ referring(d) # {}}
    IN [d \in kept |->
           [id |-> d,
            chain |-> table[d].manifest_network,
            start_block |-> table[d].manifest_start_block,
            subgraphs |-> referring(d),
            indexings |-> DeploymentIndexings(indexers_info_table, table[d], 0)]]

\* The topology deployments table: deployments without indexings or without
\* a subgraph of the snapshot are left out.
SnapshotDeployments(indexers_info_table, subgraphs, snapshot_subgraphs) ==
    LET table == DeploymentsInfoTable(subgraphs)
        referring(d) == {sid \in DOMAIN snapshot_subgraphs :
                            d \in snapshot_subgraphs[sid].deployments}
        kept == {d \in DOMAIN table :
                    /\ DOMAIN DeploymentIndexings(indexers_info_table, table[d], 0) # {}
                    /\ referring(d) # {}}
    IN [d \in kept |->
           [id |-> d,
            chain |-> table[d].manifest_network,
            start_block |-> table[d].manifest_start_block,
            subgraphs |-> referring(d),
            indexings |-> DeploymentIndexings(indexers_info_table, table[d], 0)]]

construct_network_topology_snapshot(indexers_info_table, subgraphs) ==
    LET snapshot_subgraphs == SnapshotSubgraphs(indexers_info_table, subgraphs) IN
    [status |-> "ok",
     subgraphs |-> snapshot_subgraphs,
     deployments |-> SnapshotDeployments(indexers_info_table, subgraphs, snapshot_subgraphs)]

\* process_indexers_info: the indexers that were not filtered out
IndexersInfoTable ==
    [i \in {j \in Indexers : fu[j].kept} |-> fu[i].indexer]

\* join_all has returned: process_indexers_info fails when no indexer is left,
\* otherwise fetch_update constructs the snapshot.
FuConstruct ==
    /\ \A i \in Indexers : fu[i].pc = "done"
    /\ network.status = "pending"
    /\ network' =
           IF DOMAIN IndexersInfoTable = {}
           THEN [NoNetwork EXCEPT !.status = "error"]
           ELSE construct_network_topology_snapshot(IndexersInfoTable, topology.subgraphs)
    /\ UNCHANGED <<notFU, cfgVars, lockVars, calls, min_scalar_tap_version, topology, fu>>

NextFU ==
    \/ \E i \in Indexers :
        \/ FuCheckAddrBlocklist(i)
        \/ FuHostLock(i)
        \/ FuHostResolve(i)
        \/ FuResolveAgentVersion(i)
        \/ FuResolveGraphNodeVersion(i)
        \/ FuPoiNotAffected(i)
        \/ FuPoiLock(i)
        \/ FuPoiResolve(i)
        \/ FuResolveIndexingStatus(i)
        \/ FuResolveCostModels(i)
    \/ FuConstruct

SpecFU == InitFU /\ [][NextFU]_vars

\* check_indexer_blocked_by_version on its own: every indexer's future is at
\* the call, under the version configurations InternalState can hold.
PreReleaseVersion == <<0, 0, 0, "alpha">>

InitBV ==
    /\ addr_blocklist = NoneOf({})
    /\ host_blocklist = NoneOf({})
    /\ poi_blocklist = NoneOf({})
    /\ version_requirements \in
           { [min_agent_version |-> a, min_graph_node_version |-> <<0, 10, 0>>] :
                a \in {<<0, 0, 0>>, <<0, 10, 0>>} }
    /\ min_scalar_tap_version \in {PreReleaseVersion, <<0, 0, 0>>, <<0, 10, 0>>}
    /\ topology \in {t \in TopologySet : Len(t.subgraphs) = 1}
    /\ fu = [i \in Indexers |-> [FuStart(topology.indexers[i]) EXCEPT !.pc = "agent_version"]]
    /\ network = NoNetwork
    /\ host_resolver_lock = None
    /\ poi_resolver_lock = None
    /\ calls = [i \in Indexers |-> <<>>]
    /\ raw = None
    /\ proc = None
    /\ poi_cache = EmptyMap
    /\ now = 0
    /\ refresh = 0
    /\ InitSignerIdle
    /\ InitRequestIdle
    /\ InitFetchIdle
    /\ InitReadyIdle
    /\ InitManifestIdle

NextBV ==
    \E i \in Indexers :
        \/ FuResolveAgentVersion(i)
        \/ FuResolveGraphNodeVersion(i)

SpecBV == InitBV /\ [][NextBV]_vars

(***************************************************************************)
(* ReceiptSigner and LegacySigner (src/receipts.rs).                       *)
(*                                                                         *)
(* Request handlers (Callers) run concurrently.  A handler asks for a      *)
(* receipt, holds it while the indexer request is in flight, and then      *)
(* either records its status or drops it (the handler is cancelled).       *)
(*                                                                         *)
(* A ReceiptPool is [allocation, outstanding, released]: the receipts it   *)
(* has committed and not got back, and the receipts released to it with    *)
(* their status.  A receipt is identified by its index in `receipts`.      *)
(***************************************************************************)
\* receipts::QueryStatus
ReceiptStatuses == {"Success", "Failure"}

\* ReceiptPool::new(allocation)
NewReceiptPool(allocation) ==
    [allocation |-> allocation, outstanding |-> {}, released |-> {}]

\* ReceiptPool::commit: borrows a fresh receipt from the pool.
PoolCommit(pool, r) == [pool EXCEPT !.outstanding = @ \cup {r}]

\* ReceiptPool::release: takes the receipt back with its status.
PoolRelease(pool, r, status) ==
    [pool EXCEPT !.outstanding = @ \ {r}, !.released = @ \cup {<<r, status>>}]

\* What the signer hands out: Receipt::Legacy or Receipt::Tap.
NewReceipt(kind, allocation, pool) ==
    [kind |-> kind, allocation |-> allocation, pool |-> pool, state |-> "held",
     recorded_for |-> None, released_to |-> 0, status |-> None]

\* The receipts being created: a request counts from its start.
InFlight == Cardinality({t \in Callers : callers[t].pc \in {"commit", "commit_locked", "new_pool"}})

InitRC ==
    /\ InitSignerIdle
    /\ InitRequestIdle
    /\ InitFetchIdle
    /\ InitReadyIdle
    /\ InitManifestIdle
    /\ addr_blocklist = NoneOf({})
    /\ host_blocklist = NoneOf({})
    /\ version_requirements \in VersionRequirementsSet
    /\ poi_blocklist = NoneOf({})
    /\ raw = None
    /\ proc = None
    /\ host_resolver_lock = None
    /\ poi_resolver_lock = None
    /\ poi_cache = EmptyMap
    /\ now = 0
    /\ calls = [i \in Indexers |-> <<>>]
    /\ refresh = 0
    /\ min_scalar_tap_version = <<0, 0, 0>>
    /\ topology = None
    /\ fu = None
    /\ network = None

\* ReceiptSigner::create_receipt -> TapSigner::create_receipt: signs a
\* message, touches no pool.
CreateTapReceipt(t, a) ==
    /\ callers[t].pc = "idle"
    /\ Len(receipts) + InFlight < MaxReceipts
    /\ receipts' = Append(receipts, NewReceipt("Tap", a, 0))
    /\ callers' = [callers EXCEPT ![t] =
                      [CallerIdle EXCEPT !.pc = "holding", !.allocation = a,
                                         !.receipt = Len(receipts) + 1]]
    /\ UNCHANGED <<notRC, receipt_pools, pools, map_lock, pool_lock>>

\* LegacySigner::create_receipt, line 138: look the pool up under the read
\* lock, which is released at the end of the statement.
CreateLegacyLookup(t, a) ==
    /\ callers[t].pc = "idle"
    /\ Len(receipts) + InFlight < MaxReceipts
    /\ map_lock.writer = None
    /\ callers' = [callers EXCEPT ![t] =
                      [CallerIdle EXCEPT
                          !.pc = IF receipt_pools[a] # 0 THEN "commit" ELSE "new_pool",
                          !.allocation = a,
                          !.pool = receipt_pools[a]]]
    /\ UNCHANGED <<notRC, receipt_pools, pools, map_lock, pool_lock, receipts>>

\* Some(pool): pool.lock()
CreateLockPool(t) ==
    /\ callers[t].pc = "commit"
    /\ pool_lock[callers[t].pool] = None
    /\ pool_lock' = [pool_lock EXCEPT ![callers[t].pool] = t]
    /\ callers' = [callers EXCEPT ![t].pc = "commit_locked"]
    /\ UNCHANGED <<notRC, receipt_pools, pools, map_lock, receipts>>

\* Some(pool): pool.commit(..) under the pool's lock; the guard is dropped at
\* the end of the arm.  A failed commit returns the error.
CreateCommit(t) ==
    /\ callers[t].pc = "commit_locked"
    /\ LET p == callers[t].pool
           r == Len(receipts) + 1
       IN  /\ pool_lock' = [pool_lock EXCEPT ![p] = None]
           /\ \E ok \in BOOLEAN :
                 IF ok
                 THEN /\ pools' = [pools EXCEPT ![p] = PoolCommit(@, r)]
                      /\ receipts' = Append(receipts,
                                            NewReceipt("Legacy", callers[t].allocation, p))
                      /\ callers' = [callers EXCEPT ![t].pc = "holding",
                                                    ![t].pool = 0,
                                                    ![t].receipt = r]
                 ELSE /\ callers' = [callers EXCEPT ![t] = CallerIdle]
                      /\ UNCHANGED <<pools, receipts>>
    /\ UNCHANGED <<notRC, receipt_pools, map_lock>>

\* None: ReceiptPool::new and commit on the new, still private, pool.
CreateNewPool(t) ==
    /\ callers[t].pc = "new_pool"
    /\ LET p == Len(pools) + 1
           r == Len(receipts) + 1
           a == callers[t].allocation
       IN  /\ pool_lock' = Append(pool_lock, None)
           /\ \E ok \in BOOLEAN :
                 IF ok
                 THEN /\ pools' = Append(pools, PoolCommit(NewReceiptPool(a), r))
                      /\ receipts' = Append(receipts, NewReceipt("Legacy", a, p))
                      /\ callers' = [callers EXCEPT ![t].pc = "insert",
                                                    ![t].pool = p,
                                                    ![t].receipt = r]
                 ELSE /\ pools' = Append(pools, NewReceiptPool(a))
                      /\ callers' = [callers EXCEPT ![t].pc = "insert", ![t].pool = p]
                      /\ UNCHANGED receipts
    /\ UNCHANGED <<notRC, receipt_pools, map_lock>>

\* HashMap::insert replaces the entry of the key if there is one.
MapInsert(map, a, p) == [map EXCEPT ![a] = p]

\* None: receipt_pools.write().insert(allocation, pool), then the result of
\* the commit is returned.
CreateInsertPool(t) ==
    /\ callers[t].pc = "insert"
    /\ map_lock.writer = None
    /\ map_lock.readers = {}
    /\ receipt_pools' = MapInsert(receipt_pools, callers[t].allocation, callers[t].pool)
    /\ callers' = [callers EXCEPT ![t] =
                      IF @.receipt # 0
                      THEN [@ EXCEPT !.pc = "holding", !.pool = 0]
                      ELSE CallerIdle]
    /\ UNCHANGED <<notRC, pools, map_lock, pool_lock, receipts>>

\* Mutant: every receipt is taken for a legacy receipt.
IsLegacyAlways(receipt) == TRUE

\* Receipt::Legacy(..) = receipt
IsLegacy(receipt) == receipt.kind = "Legacy"

\* ReceiptSigner::record_receipt.  A TAP receipt returns at once.  For a
\* legacy receipt LegacySigner::record_receipt takes the read lock of the map
\* and looks the pool of the allocation up; without a pool it returns.
\* Handlers record a legacy receipt for the allocation it was created for.
RecordReceipt(t, a, status) ==
    /\ callers[t].pc = "holding"
    /\ LET r == callers[t].receipt
       IN  /\ receipts[r].kind = "Legacy" => a = receipts[r].allocation
           /\ IF IsLegacy(receipts[r]) /\ receipt_pools[a] # 0
              THEN /\ map_lock.writer = None
                   /\ map_lock' = [map_lock EXCEPT !.readers = @ \cup {t}]
                   /\ callers' = [callers EXCEPT ![t].pc = "record_read",
                                                 ![t].allocation = a,
                                                 ![t].pool = receipt_pools[a],
                                                 ![t].status = status]
                   /\ UNCHANGED receipts
              ELSE /\ IsLegacy(receipts[r]) => map_lock.writer = None
                   /\ receipts' = [receipts EXCEPT ![r].state = "recorded",
                                                   ![r].recorded_for = a,
                                                   ![r].status = status]
                   /\ callers' = [callers EXCEPT ![t] = CallerIdle]
                   /\ UNCHANGED map_lock
    /\ UNCHANGED <<notRC, receipt_pools, pools, pool_lock>>

\* Mutant: the pool is entered without waiting for its lock.
RecordLockPoolUnchecked(t) ==
    /\ callers[t].pc = "record_read"
    /\ pool_lock' = [pool_lock EXCEPT ![callers[t].pool] = t]
    /\ callers' = [callers EXCEPT ![t].pc = "record_locked"]
    /\ UNCHANGED <<notRC, receipt_pools, pools, map_lock, receipts>>

\* legacy_pool.lock(), with the read lock of the map held
RecordLockPool(t) ==
    /\ callers[t].pc = "record_read"
    /\ pool_lock[callers[t].pool] = None
    /\ pool_lock' = [pool_lock EXCEPT ![callers[t].pool] = t]
    /\ callers' = [callers EXCEPT ![t].pc = "record_locked"]
    /\ UNCHANGED <<notRC, receipt_pools, pools, map_lock, receipts>>

\* .release(receipt, status); both guards are dropped on return
RecordRelease(t) ==
    /\ callers[t].pc = "record_locked"
    /\ LET p == callers[t].pool
           r == callers[t].receipt
       IN  /\ pools' = [pools EXCEPT ![p] = PoolRelease(@, r, callers[t].status)]
           /\ receipts' = [receipts EXCEPT ![r].state = "recorded",
                                           ![r].recorded_for = callers[t].allocation,
                                           ![r].released_to = p,
                                           ![r].status = callers[t].status]
           /\ pool_lock' = [pool_lock EXCEPT ![p] = None]
    /\ map_lock' = [map_lock EXCEPT !.readers = @ \ {t}]
    /\ callers' = [callers EXCEPT ![t] = CallerIdle]
    /\ UNCHANGED <<notRC, receipt_pools>>

\* The handler is cancelled with the request in flight: its Receipt is
\* dropped.  Receipt is a plain enum without a Drop implementation, so
\* nothing is told to the signer.
DropReceipt(t) ==
    /\ callers[t].pc = "holding"
    /\ receipts' = [receipts EXCEPT ![callers[t].receipt].state = "dropped"]
    /\ callers' = [callers EXCEPT ![t] = CallerIdle]
    /\ UNCHANGED <<notRC, receipt_pools, pools, map_lock, pool_lock>>

NextRC ==
    \E t \in Callers :
        \/ \E a \in Allocations : CreateTapReceipt(t, a)
        \/ \E a \in Allocations : CreateLegacyLookup(t, a)
        \/ CreateLockPool(t)
        \/ CreateCommit(t)
        \/ CreateNewPool(t)
        \/ CreateInsertPool(t)
        \/ \E a \in Allocations, status \in ReceiptStatuses : RecordReceipt(t, a, status)
        \/ RecordLockPool(t)
        \/ RecordRelease(t)
        \/ DropReceipt(t)

SpecRC == InitRC /\ [][NextRC]_vars

(***************************************************************************)
(* Request handling: API key parsing and authorization (auth/studio.rs),   *)
(* the subgraph query handler (src/main.rs) and the query engine's retry   *)
(* loop.                                                                   *)
(*                                                                         *)
(* A string is the sequence of its bytes, as str::len counts them; a byte  *)
(* is written as the character it encodes, or as "0xC3", "0xA9" for the    *)
(* two bytes of a non-ASCII character.                                     *)
(***************************************************************************)
HexDigits == <<"0", "1", "2", "3", "4", "5", "6", "7", "8", "9",
               "a", "b", "c", "d", "e", "f">>
UpperHexDigits == <<"A", "B", "C", "D", "E", "F">>

\* The value of a hex digit, -1 for any other byte (faster_hex accepts both
\* cases).
HexVal(c) ==
    IF \E k \in 1..16 : HexDigits[k] = c
    THEN (CHOOSE k \in 1..16 : HexDigits[k] = c) - 1
    ELSE IF \E k \in 1..6 : UpperHexDigits[k] = c
    THEN (CHOOSE k \in 1..6 : UpperHexDigits[k] = c) + 9
    ELSE -1

\* faster_hex::hex_decode into a buffer of KEY_LEN / 2 bytes.
hex_decode(value) ==
    IF \E k \in 1..Len(value) : HexVal(value[k]) < 0
    THEN [ok |-> FALSE, err |-> "InvalidHex", n |-> 0, bytes |-> <<>>]
    ELSE [ok |-> TRUE, err |-> None, n |-> 0,
          bytes |-> [j \in 1..(Len(value) \div 2) |->
                        16 * HexVal(value[2 * j - 1]) + HexVal(value[2 * j])]]

\* Mutant: the hex digits are checked before the length.
parse_studio_api_key_HexFirst(value) ==
    IF ~hex_decode(value).ok THEN hex_decode(value)
    ELSE IF Len(value) # KEY_LEN
    THEN [ok |-> FALSE, err |-> "InvalidLength", n |-> Len(value), bytes |-> <<>>]
    ELSE hex_decode(value)

parse_studio_api_key(value) ==
    IF Len(value) # KEY_LEN
    THEN [ok |-> FALSE, err |-> "InvalidLength", n |-> Len(value), bytes |-> <<>>]
    ELSE hex_decode(value)

\* "0123456789abcdef0123..." cut at n bytes.
KeyOfLen(n) == [k \in 1..n |-> HexDigits[((k - 1) % 16) + 1]]

\* The bearer token of the one API key of the key map, and a well-formed
\* token that is not in the map.
KnownToken == KeyOfLen(KEY_LEN)
UnknownToken == [k \in 1..KEY_LEN |-> "0"]

\* The tokens requests come with: keys of several lengths, with one byte
\* replaced by a non-hex byte or by an upper case digit, and a key of 31
\* characters the last of which takes two bytes.
Tokens ==
    {KeyOfLen(n) : n \in TokenLens} \cup {UnknownToken}
    \cup {[KeyOfLen(n) EXCEPT ![p] = c] :
             n \in TokenLens \ {0}, p \in {1, KEY_LEN \div 2, KEY_LEN - 1}, c \in {"g", "F", " "}}
    \cup {KeyOfLen(KEY_LEN - 2) \o <<"0xC3", "0xA9">>}

\* Hosts, over the alphabet {a, b, .}; the key's authorized domain is "a.b".
AuthorizedDomain == <<"a", ".", "b">>
Hosts ==
    { <<"a", ".", "b">>,
      <<"b", ".", "a", ".", "b">>,
      <<"b", "a", ".", "b">>,
      <<"a", ".", "b", ".", "a">>,
      <<"b">> }

\* str::starts_with and str::ends_with
StartsWith(s, prefix) == Len(prefix) <= Len(s) /\ SubSeq(s, 1, Len(prefix)) = prefix
EndsWith(s, suffix) ==
    Len(suffix) <= Len(s) /\ SubSeq(s, Len(s) - Len(suffix) + 1, Len(s)) = suffix

\* The subgraph a deployment is a version of.
SubgraphOf(d) == IF d = "D1" THEN "S1" ELSE "S2"

Ok == [ok |-> TRUE, msg |-> ""]
Err(msg) == [ok |-> FALSE, msg |-> msg]

\* The APIKey of the key map, as the handler of src/main.rs reads it
\* (queries_activated) and as auth/studio.rs reads it (query_status,
\* is_subsidized, subgraphs).
ApiKeySet(handler) ==
    IF handler = "main"
    THEN [key : {KnownToken}, queries_activated : BOOLEAN, is_subsidized : {FALSE},
          query_status : {"Active"}, deployments : {{}, {"D1"}}, subgraphs : {{}},
          domains : {<<>>, <<AuthorizedDomain>>}]
    ELSE [key : {KnownToken}, queries_activated : {TRUE}, is_subsidized : BOOLEAN,
          query_status : {"Active", "Inactive", "ServiceShutoff"},
          deployments : {{}, {"D1"}}, subgraphs : {{}, {"S1"}},
          domains : {<<>>, <<AuthorizedDomain>>}]

\* The incoming requests: the handler that serves it, the bearer token, the
\* host of the Origin header (if any), the requested deployment and the
\* number of candidate indexers the selection has for it.
RequestSet ==
    {r \in [handler : {"main", "studio"}, token : Tokens,
            subgraph : {"found", "unknown", "invalid"},
            origin : {NoneOf(<<>>)} \cup {Some(h) : h \in Hosts},
            deployment : {"D1", "D2"}, candidates : 0..MaxCandidates] :
        /\ r.handler = "main" => r.token \in {KnownToken, UnknownToken}
        /\ r.handler = "studio" => r.candidates = 0 /\ r.subgraph = "found"
        /\ r.subgraph # "found" => r.token = UnknownToken
        /\ r.token # KnownToken =>
              r.origin = NoneOf(<<>>) /\ r.deployment = "D1" /\ r.candidates = 0}

\* client_query::Context: the configuration and the key map.
ContextSet(r) ==
    [indexer_selection_retry_limit :
         IF r.handler = "main" /\ r.token = KnownToken THEN 0..MaxRetryLimit ELSE {1},
     api_key_payment_required :
         IF r.handler = "studio" /\ r.token = KnownToken THEN BOOLEAN ELSE {TRUE},
     special_api_keys :
         IF r.handler = "studio" /\ r.token = KnownToken THEN {{}, {KnownToken}} ELSE {{}},
     api_key :
         IF r.token = KnownToken
         THEN ApiKeySet(r.handler)
         ELSE {CHOOSE k \in ApiKeySet(r.handler) : TRUE}]

\* The Query of a request before its handler runs.
NoResponse == [ok |-> FALSE, msg |-> None]
\* Mutant: a failure is answered with the status 400.
graphql_error_response_BadRequest(message) ==
    [status |-> 400, errors |-> Some([message |-> message])]

\* HttpResponseBuilder::new(StatusCode::OK) with the body {"errors": {"message": ..}}
graphql_error_response(message) ==
    [status |-> 200, errors |-> Some([message |-> message])]

\* The HttpResponse of a served query: StatusCode::OK and the payload.
PayloadResponse == [status |-> 200, errors |-> NoneOf([message |-> ""])]

NoHttpResponse == [status |-> 0, errors |-> NoneOf([message |-> ""])]

QueryStart ==
    [pc |-> "start", api_key |-> None,
     parsed |-> [ok |-> FALSE, err |-> None, n |-> 0, bytes |-> <<>>],
     indexer_attempts |-> <<>>, result |-> None, response |-> NoResponse,
     http |-> NoHttpResponse]

\* AuthHandler::get_api_key: the key map holds the one key of the context.
get_api_key(context, token) ==
    IF token = context.api_key.key THEN Some(context.api_key) ELSE NoneOf(None)

\* parse_bearer_token
parse_bearer_token(context, token) ==
    IF ~parse_studio_api_key(token).ok
    THEN [ok |-> FALSE, api_key |-> None, msg |-> "Invalid api key format"]
    ELSE IF ~get_api_key(context, token).some
    THEN [ok |-> FALSE, api_key |-> None, msg |-> "API key not found"]
    ELSE [ok |-> TRUE, api_key |-> get_api_key(context, token).v, msg |-> ""]

\* Mutant: a special key is treated as any other key.
PaymentStatusErrorNoSpecial(context, api_key) ==
    IF context.api_key_payment_required /\ ~api_key.is_subsidized
    THEN CASE api_key.query_status = "Active" -> Ok
           [] api_key.query_status = "Inactive" ->
                Err("Querying not activated yet; make sure to add some GRT to your balance in the studio")
           [] api_key.query_status = "ServiceShutoff" ->
                Err("Payment required for subsequent requests for this API key")
    ELSE Ok

\* check_token: the payment status of the key
PaymentStatusError(context, api_key) ==
    IF /\ context.api_key_payment_required
       /\ ~api_key.is_subsidized
       /\ api_key.key \notin context.special_api_keys
    THEN CASE api_key.query_status = "Active" -> Ok
           [] api_key.query_status = "Inactive" ->
                Err("Querying not activated yet; make sure to add some GRT to your balance in the studio")
           [] api_key.query_status = "ServiceShutoff" ->
                Err("Payment required for subsequent requests for this API key")
    ELSE Ok

\* auth::common: an empty allowlist authorizes everything; a deployment is
\* authorized when it is listed, a subgraph when the deployment is a version
\* of a listed subgraph, a domain when it is a listed domain or a sub-domain
\* of one.
are_deployments_authorized(allowed, deployment) == allowed = {} \/ deployment \in allowed
are_subgraphs_authorized(allowed, deployment) == allowed = {} \/ SubgraphOf(deployment) \in allowed
is_domain_authorized(allowed, domain) ==
    \/ allowed = <<>>
    \/ \E k \in 1..Len(allowed) :
          domain = allowed[k] \/ EndsWith(domain, <<".">> \o allowed[k])

\* check_token
check_token(context, api_key, deployment, domain) ==
    IF ~PaymentStatusError(context, api_key).ok
    THEN PaymentStatusError(context, api_key)
    ELSE IF ~are_deployments_authorized(api_key.deployments, deployment)
    THEN Err("Deployment not authorized by user")
    ELSE IF ~are_subgraphs_authorized(api_key.subgraphs, deployment)
    THEN Err("Subgraph not authorized by user")
    ELSE IF ~is_domain_authorized(api_key.domains, domain)
    THEN Err("Domain not authorized by user")
    ELSE Ok

\* The domain of a request: the host of its Origin header, "" without one.
DomainOf(r) == IF r.origin.some THEN r.origin.v ELSE <<>>

InitRQ ==
    /\ request \in RequestSet
    /\ ctx \in ContextSet(request)
    /\ query = QueryStart
    /\ kafka = <<>>
    /\ InitSignerIdle
    /\ InitFetchIdle
    /\ InitReadyIdle
    /\ InitManifestIdle
    /\ addr_blocklist = NoneOf({})
    /\ host_blocklist = NoneOf({})
    /\ version_requirements \in VersionRequirementsSet
    /\ poi_blocklist = NoneOf({})
    /\ raw = None
    /\ proc = None
    /\ host_resolver_lock = None
    /\ poi_resolver_lock = None
    /\ poi_cache = EmptyMap
    /\ now = 0
    /\ calls = [i \in Indexers |-> <<>>]
    /\ refresh = 0
    /\ min_scalar_tap_version = <<0, 0, 0>>
    /\ topology = None
    /\ fu = None
    /\ network = None

\* The bearer token of a request is parsed and looked up.
ParseBearerToken ==
    /\ request.handler = "studio"
    /\ query.pc = "start"
    /\ LET r == parse_bearer_token(ctx, request.token) IN
       query' = [query EXCEPT
                    !.pc = IF r.ok THEN "check_token" ELSE "done",
                    !.parsed = parse_studio_api_key(request.token),
                    !.api_key = r.api_key,
                    !.response = IF r.ok THEN NoResponse ELSE Err(r.msg)]
    /\ UNCHANGED <<notRQ, ctx, request, kafka>>

CheckToken ==
    /\ request.handler = "studio"
    /\ query.pc = "check_token"
    /\ query' = [query EXCEPT
                    !.pc = "done",
                    !.response = check_token(ctx, query.api_key, request.deployment,
                                             DomainOf(request))]
    /\ UNCHANGED <<notRQ, ctx, request, kafka>>

\* handle_subgraph_query: the subgraph identifier of the path does not
\* resolve, or the deployment is not in subgraph_info: the handler returns.
RejectSubgraph ==
    /\ request.handler = "main"
    /\ query.pc = "start"
    /\ request.subgraph # "found"
    /\ query' = [query EXCEPT
                    !.pc = "returned",
                    !.http = IF request.subgraph = "invalid"
                             THEN graphql_error_response("Invalid subgraph identifier")
                             ELSE graphql_error_response("Subgraph not found")]
    /\ UNCHANGED <<notRQ, ctx, request, kafka>>

\* handle_subgraph_query_inner up to the call of execute_query: the key
\* lookup and the checks of the key.
Authorize ==
    /\ request.handler = "main"
    /\ query.pc = "start"
    /\ request.subgraph = "found"
    /\ LET api_key == get_api_key(ctx, request.token)
           domain == DomainOf(request)
       IN
       query' =
           IF ~api_key.some
           THEN [query EXCEPT !.pc = "done", !.response = Err("Invalid API key")]
           ELSE IF ~api_key.v.queries_activated
           THEN [query EXCEPT
                    !.pc = "done", !.api_key = api_key.v,
                    !.response = Err("Querying not activated yet; make sure to add some GRT to your balance in the studio")]
           ELSE IF /\ api_key.v.domains # <<>>
                   /\ ~\E k \in 1..Len(api_key.v.domains) :
                           StartsWith(domain, api_key.v.domains[k])
           THEN [query EXCEPT
                    !.pc = "done", !.api_key = api_key.v,
                    !.response = Err("Domain not authorized by API key")]
           ELSE IF api_key.v.deployments # {} /\ request.deployment \notin api_key.v.deployments
           THEN [query EXCEPT
                    !.pc = "done", !.api_key = api_key.v,
                    !.response = Err("Subgraph not authorized by API key")]
           ELSE [query EXCEPT !.pc = "execute_query", !.api_key = api_key.v]
    /\ UNCHANGED <<notRQ, ctx, request, kafka>>

\* The results of one indexer attempt.
AttemptResults == {"Ok", "TransportError", "UnattestableResponse", "Timeout"}

\* Mutant: the attempts go on as long as there are candidates.
AttemptsLeftNoLimit(context, r, q) == Len(q.indexer_attempts) < r.candidates

\* execute_query: another candidate may be tried.
AttemptsLeft(context, r, q) ==
    /\ Len(q.indexer_attempts) < context.indexer_selection_retry_limit
    /\ Len(q.indexer_attempts) < r.candidates

\* Mutant: an unattestable response ends the loop as well.
AttemptSucceededOrUnattestable(result) == result \in {"Ok", "UnattestableResponse"}

\* execute_query: the attempt that ends the loop.
AttemptSucceeded(result) == result = "Ok"

\* execute_query: one attempt.  A successful attempt makes execute_query
\* return Ok(()), any other result leads to the next candidate.
ExecuteQueryAttempt ==
    /\ query.pc = "execute_query"
    /\ AttemptsLeft(ctx, request, query)
    /\ \E result \in AttemptResults :
          query' = [query EXCEPT
                       !.indexer_attempts = Append(@, [result |-> result]),
                       !.pc = IF AttemptSucceeded(result) THEN "respond" ELSE @,
                       !.result = IF AttemptSucceeded(result) THEN "Ok" ELSE @]
    /\ UNCHANGED <<notRQ, ctx, request, kafka>>

\* execute_query returns an error: no candidate, or no attempt left; the
\* handler turns it into the message of its response.
ExecuteQueryFail ==
    /\ query.pc = "execute_query"
    /\ ~AttemptsLeft(ctx, request, query)
    /\ query' = [query EXCEPT
                    !.pc = "done",
                    !.result = IF request.candidates = 0
                               THEN "NoIndexers" ELSE "NoIndexerSelected",
                    !.response = IF request.candidates = 0
                                 THEN Err("No indexers found for subgraph deployment")
                                 ELSE Err("No suitable indexer found for subgraph deployment")]
    /\ UNCHANGED <<notRQ, ctx, request, kafka>>

\* The errors execute_query returns before any attempt, and the message the
\* handler makes of a QueryEngineError.
QueryEngineErrorMessage(err) ==
    CASE err = "MalformedQuery" -> "Invalid query"
      [] err = "NoIndexers" -> "No indexers found for subgraph deployment"
      [] err = "NoIndexerSelected" -> "No suitable indexer found for subgraph deployment"
      [] err = "FeesTooHigh" ->
             "No suitable indexer found, {} indexers requesting higher fees for this query"
      [] err = "BlockBeforeMin" ->
             "Requested block before minimum startBlock of subgraph manifest"
      [] err = "MissingBlock" -> "Gateway failed to resolve required blocks"

\* execute_query returns an error before it attempts a candidate.
ExecuteQueryRejects ==
    /\ query.pc = "execute_query"
    /\ query.indexer_attempts = <<>>
    /\ \E err \in {"MalformedQuery", "FeesTooHigh", "BlockBeforeMin", "MissingBlock"} :
          query' = [query EXCEPT
                       !.pc = "done",
                       !.result = err,
                       !.response = Err(QueryEngineErrorMessage(err))]
    /\ UNCHANGED <<notRQ, ctx, request, kafka>>

\* The message of the status_result of a response: StatusCode::OK.to_string()
\* of an Ok, the message of an Err.
StatusResult(response) == IF response.ok THEN "200 OK" ELSE response.msg

\* Mutant: only the client query result is sent.
notify_query_result_ResultOnly(q, response) ==
    << [kind |-> "ClientQueryResult", attempt |-> 0, status |-> StatusResult(response)] >>

\* notify_query_result: the messages sent to the Kafka client, the
\* ClientQueryResult and then an IndexerAttempt for each of
\* query.indexer_attempts, in their order.
notify_query_result(q, response) ==
    << [kind |-> "ClientQueryResult", attempt |-> 0, status |-> StatusResult(response)] >>
    \o [k \in 1..Len(q.indexer_attempts) |->
           [kind |-> "IndexerAttempt", attempt |-> k, status |-> q.indexer_attempts[k].result]]

\* handle_subgraph_query after handle_subgraph_query_inner returned: the
\* payload of an Ok, graphql_error_response of the message of an Err, and the
\* notification of the result.
ReturnPayload ==
    /\ request.handler = "main"
    /\ query.pc = "done"
    /\ query' = [query EXCEPT
                    !.pc = "returned",
                    !.http = IF query.response.ok
                             THEN PayloadResponse
                             ELSE graphql_error_response(query.response.msg)]
    /\ kafka' = kafka \o notify_query_result(query, query.response)
    /\ UNCHANGED <<notRQ, ctx, request>>

\* handle_subgraph_query_inner after execute_query returned Ok:
\* indexer_attempts.last().unwrap() and result.as_ref().unwrap().
Respond ==
    /\ query.pc = "respond"
    /\ query' =
           IF query.indexer_attempts = <<>>
           THEN [query EXCEPT !.pc = "panicked"]
           ELSE IF query.indexer_attempts[Len(query.indexer_attempts)].result # "Ok"
           THEN [query EXCEPT !.pc = "panicked"]
           ELSE [query EXCEPT !.pc = "done", !.response = Ok]
    /\ UNCHANGED <<notRQ, ctx, request, kafka>>

NextRQ ==
    \/ ParseBearerToken
    \/ CheckToken
    \/ RejectSubgraph
    \/ Authorize
    \/ ExecuteQueryAttempt
    \/ ExecuteQueryRejects
    \/ ExecuteQueryFail
    \/ Respond
    \/ ReturnPayload

SpecRQ == InitRQ /\ [][NextRQ]_vars

(***************************************************************************)
(* fetch_update (network/internal.rs): the two fetches of the network      *)
(* subgraph, their pre-processing, and the join with the processing of the *)
(* indexers.                                                               *)
(***************************************************************************)
\* The variables that the fetches do not touch.
notFT == <<piVars, rcVars, rqVars, rdVars, mcVars>>

\* anyhow::Result of a fetch or of a conversion
Fetched(v) == [ok |-> TRUE, err |-> "", v |-> v]
FetchFailed(err) == [ok |-> FALSE, err |-> err, v |-> <<>>]

\* What Url::parse makes of the fetched URL string: an error, or a URL with
\* a scheme and possibly a host.
Unparsable == [parses |-> FALSE, scheme |-> <<>>, host |-> FALSE]
ParsedUrl(scheme, host) == [parses |-> TRUE, scheme |-> scheme, host |-> host]

Http == <<"h", "t", "t", "p">>

\* fetch_indexers::Allocation and fetch_indexers::Indexer
FetchedAllocation(id, d, tokens) ==
    [id |-> id, subgraph_deployment |-> d, allocated_tokens |-> tokens]

FetchedIndexer(id, url, allocations) == [id |-> id, url |-> url, allocations |-> allocations]

\* The allocations of the fetched indexers: the network subgraph returns them
\* ordered by allocatedTokens, largest first.
FetchedAllocations(i) ==
    IF i = "i1"
    THEN <<FetchedAllocation("a1", "d1", 30), FetchedAllocation("a2", "d2", 20),
           FetchedAllocation("a3", "d1", 10)>>
    ELSE <<FetchedAllocation("a4", "d2", 5), FetchedAllocation("a5", "d2", 5)>>

\* The answers of fetch_indexers: no indexer, two valid indexers, an indexer
\* with scheme "httpx" next to one without allocations, and indexers with a
\* missing URL, an unparsable URL, another scheme or no host.
FetchedIndexersSet ==
    { <<>>,
      <<FetchedIndexer("i1", Some(ParsedUrl(Http, TRUE)), FetchedAllocations("i1")),
        FetchedIndexer("i2", Some(ParsedUrl(Http \o <<"s">>, TRUE)), FetchedAllocations("i2"))>>,
      <<FetchedIndexer("i1", Some(ParsedUrl(Http \o <<"x">>, TRUE)), FetchedAllocations("i1")),
        FetchedIndexer("i2", Some(ParsedUrl(Http, TRUE)), <<>>)>>,
      <<FetchedIndexer("i1", NoneOf(Unparsable), FetchedAllocations("i1")),
        FetchedIndexer("i2", Some(Unparsable), FetchedAllocations("i2"))>>,
      <<FetchedIndexer("i1", Some(ParsedUrl(<<"f", "t", "p">>, TRUE)), FetchedAllocations("i1")),
        FetchedIndexer("i2", Some(ParsedUrl(Http \o <<"x">>, FALSE)), FetchedAllocations("i2"))>> }

\* What happens to a fetch: it exceeds NETWORK_TOPOLOGY_FETCH_TIMEOUT, the
\* client returns an error, or it returns a list.
FetchOutcomesOf(lists) ==
    {[kind |-> k, v |-> <<>>] : k \in {"timeout", "fail"}} \cup
    {[kind |-> "ok", v |-> l] : l \in lists}

\* Itertools::unique: the first occurrence of every element, in order.
Unique(s) ==
    LET F[k \in 0..Len(s)] ==
            IF k = 0 THEN <<>>
            ELSE IF s[k] \in SeqToSet(F[k - 1]) THEN F[k - 1] ELSE Append(F[k - 1], s[k])
    IN F[Len(s)]

\* The allocations on a deployment, in the order of the fetched list.
AllocationsOn(allocations, d) ==
    SelectSeq(allocations, LAMBDA alloc : alloc.subgraph_deployment = d)

\* Mutant: the last allocation on the deployment is taken.
LargestAllocationLast(allocations, d) ==
    AllocationsOn(allocations, d)[Len(AllocationsOn(allocations, d))].id

\* indexer_indexing_largest_allocations: .filter_map(..).next(), the first
\* allocation on the deployment.
LargestAllocation(allocations, d) == Head(AllocationsOn(allocations, d)).id

\* indexer_indexing_total_allocated_tokens: .sum()
TotalAllocatedTokens(allocations, d) ==
    LET on == AllocationsOn(allocations, d)
        F[k \in 0..Len(on)] == IF k = 0 THEN 0 ELSE F[k - 1] + on[k].allocated_tokens
    IN F[Len(on)]

try_into_internal_indexer_info(indexer) ==
    IF ~indexer.url.some THEN FetchFailed("missing URL")
    ELSE IF ~indexer.url.v.parses THEN FetchFailed("URL parsing failed")
    ELSE IF ~StartsWith(indexer.url.v.scheme, Http)
    THEN FetchFailed("invalid URL: invalid scheme")
    ELSE IF ~indexer.url.v.host THEN FetchFailed("invalid URL: missing host")
    ELSE IF indexer.allocations = <<>> THEN FetchFailed("no allocations")
    ELSE LET indexer_deployment_ids ==
                 Unique([k \in 1..Len(indexer.allocations) |->
                            indexer.allocations[k].subgraph_deployment])
         IN Fetched([InternalIndexerInfo(indexer.id, indexer_deployment_ids) EXCEPT
                        !.largest_allocation =
                            [d \in SeqToSet(indexer_deployment_ids) |->
                                LargestAllocation(indexer.allocations, d)],
                        !.total_allocated_tokens =
                            [d \in SeqToSet(indexer_deployment_ids) |->
                                TotalAllocatedTokens(indexer.allocations, d)]])

\* The Ok values of a list of results (filter_map over the conversions).
ValidOf(converted) ==
    LET valid == SelectSeq(converted, LAMBDA r : r.ok)
    IN [k \in 1..Len(valid) |-> valid[k].v]

fetch_and_pre_process_indexers_info(outcome) ==
    IF outcome.kind = "fail" THEN FetchFailed("indexers fetch failed")
    ELSE IF outcome.v = <<>> THEN FetchFailed("empty indexers fetch")
    ELSE LET indexers == ValidOf([k \in 1..Len(outcome.v) |->
                                     try_into_internal_indexer_info(outcome.v[k])])
         IN IF indexers = <<>>
            THEN FetchFailed("no valid indexers found")
            ELSE Fetched(indexers)

\* fetch_subgraphs::Subgraph and its versions: a version's deployment has a
\* manifest or none, the manifest a network or none.
FetchedVersion(version, d, manifest, allocated) ==
    [version |-> version,
     subgraph_deployment |->
         [id |-> d,
          manifest |-> manifest,
          allocations |->
              IF allocated
              THEN [k \in 1..Len(DeploymentInfoOf(d).allocations) |->
                       [id |-> DeploymentInfoOf(d).allocations[k].id,
                        indexer |-> [id |-> DeploymentInfoOf(d).allocations[k].indexer]]]
              ELSE <<>>,
          transferred_to_l2 |-> FALSE]]

Manifest(manifest_network) == [network |-> manifest_network, start_block |-> NoneOf(0)]

\* The answers of fetch_subgraphs: no subgraph, a valid subgraph next to one
\* whose only version has no manifest, and subgraphs without a valid version.
FetchedSubgraphsSet ==
    { <<>>,
      << [id |-> "s1",
          versions |-> <<FetchedVersion(2, "d1", Some(Manifest(Some("mainnet"))), TRUE),
                         FetchedVersion(1, "d2", NoneOf(Manifest(NoneOf(""))), TRUE)>>],
         [id |-> "s2",
          versions |-> <<FetchedVersion(1, "d2", Some(Manifest(Some("mainnet"))), TRUE)>>],
         [id |-> "s3",
          versions |-> <<FetchedVersion(1, "d1", NoneOf(Manifest(NoneOf(""))), TRUE)>>] >>,
      << [id |-> "s1",
          versions |-> <<FetchedVersion(1, "d1", Some(Manifest(NoneOf(""))), TRUE)>>],
         [id |-> "s2",
          versions |-> <<FetchedVersion(1, "d2", Some(Manifest(Some("mainnet"))), FALSE)>>] >> }

try_into_internal_subgraph_info(subgraph) ==
    LET valid == SelectSeq(subgraph.versions,
                           LAMBDA version :
                               /\ version.subgraph_deployment.manifest.some
                               /\ version.subgraph_deployment.manifest.v.network.some
                               /\ version.subgraph_deployment.allocations # <<>>)
        versions ==
            [k \in 1..Len(valid) |->
                LET deployment == valid[k].subgraph_deployment IN
                [version |-> valid[k].version,
                 deployment |->
                     [id |-> deployment.id,
                      allocations |->
                          [a \in 1..Len(deployment.allocations) |->
                              [id |-> deployment.allocations[a].id,
                               indexer |-> deployment.allocations[a].indexer.id]],
                      manifest_network |-> deployment.manifest.v.network.v,
                      manifest_start_block |->
                          IF deployment.manifest.v.start_block.some
                          THEN deployment.manifest.v.start_block.v ELSE 0,
                      transferred_to_l2 |-> deployment.transferred_to_l2]]]
    IN IF versions = <<>>
       THEN FetchFailed("no valid versions found")
       ELSE Fetched([id |-> subgraph.id, versions |-> versions])

fetch_and_pre_process_subgraphs_info(outcome) ==
    IF outcome.kind = "fail" THEN FetchFailed("subgraphs fetch failed")
    ELSE IF outcome.v = <<>> THEN FetchFailed("empty subgraphs fetch")
    ELSE LET subgraphs == ValidOf([k \in 1..Len(outcome.v) |->
                                      try_into_internal_subgraph_info(outcome.v[k])])
         IN IF subgraphs = <<>>
            THEN FetchFailed("no valid subgraphs found")
            ELSE Fetched(subgraphs)

\* Mutant: a fetch that timed out counts as an empty answer.
WithinTimeoutOrEmpty(outcome, resp, timed_out, failed) ==
    IF outcome.kind = "timeout" THEN Fetched(<<>>)
    ELSE IF ~resp.ok THEN FetchFailed(failed)
    ELSE resp

\* match tokio::time::timeout(NETWORK_TOPOLOGY_FETCH_TIMEOUT, ..).await
WithinTimeout(outcome, resp, timed_out, failed) ==
    IF outcome.kind = "timeout" THEN FetchFailed(timed_out)
    ELSE IF ~resp.ok THEN FetchFailed(failed)
    ELSE resp

FetchStart ==
    [pc |-> "lock", outcome |-> [kind |-> "pending", v |-> <<>>], result |-> FetchFailed("")]

\* An indexer that is not (or not yet) handed to process_indexers_info.
FuAbsent(i) == [pc |-> "absent", kept |-> FALSE, indexer |-> InternalIndexerInfo(i, <<>>)]

InitFT ==
    /\ addr_blocklist = NoneOf({})
    /\ host_blocklist = Some({"ip1"})
    /\ version_requirements \in VersionRequirementsSet
    /\ poi_blocklist = Some({[deployment |-> "d1", block |-> 5, poi |-> "poiBad"]})
    /\ min_scalar_tap_version = <<0, 10, 0>>
    /\ topology = [indexers |-> EmptyMap, subgraphs |-> <<>>]
    /\ fu = [i \in Indexers |-> FuAbsent(i)]
    /\ network = NoNetwork
    /\ client_lock = None
    /\ fetch = [b \in {"indexers", "subgraphs"} |-> FetchStart]
    /\ host_resolver_lock = None
    /\ poi_resolver_lock = None
    /\ calls = [i \in Indexers |-> <<>>]
    /\ raw = None
    /\ proc = None
    /\ poi_cache = EmptyMap
    /\ now = 0
    /\ refresh = 0
    /\ InitSignerIdle
    /\ InitRequestIdle
    /\ InitReadyIdle
    /\ InitManifestIdle

\* try_join returns the error of a branch: fetch_update returns it, and the
\* futures of the other branch are dropped with the guards they hold.
FetchUpdateErr ==
    /\ network' = [NoNetwork EXCEPT !.status = "error"]
    /\ fu' = [i \in Indexers |-> [fu[i] EXCEPT !.pc = "dropped"]]
    /\ client_lock' = None
    /\ host_resolver_lock' = None
    /\ poi_resolver_lock' = None

\* Mutant: a branch takes the client without waiting for its lock.
ClientLockUnchecked(b) ==
    /\ network.status = "pending"
    /\ fetch[b].pc = "lock"
    /\ client_lock' = b
    /\ fetch' = [fetch EXCEPT ![b].pc = "fetch"]
    /\ UNCHANGED <<notFT, cfgVars, lockVars, calls, fuVars>>

\* client.lock().await of a branch of try_join
ClientLock(b) ==
    /\ network.status = "pending"
    /\ fetch[b].pc = "lock"
    /\ client_lock = None
    /\ client_lock' = b
    /\ fetch' = [fetch EXCEPT ![b].pc = "fetch"]
    /\ UNCHANGED <<notFT, cfgVars, lockVars, calls, fuVars>>

\* The first branch: the fetch of the indexers under the timeout; its result
\* is handed to process_indexers_info, its error ends fetch_update.
FetchIndexers ==
    /\ network.status = "pending"
    /\ fetch["indexers"].pc = "fetch"
    /\ client_lock = "indexers"
    /\ \E outcome \in FetchOutcomesOf(FetchedIndexersSet) :
        LET indexers == WithinTimeout(outcome, fetch_and_pre_process_indexers_info(outcome),
                                      "indexers info fetch timed out",
                                      "indexers info fetch failed")
        IN /\ fetch' = [fetch EXCEPT !["indexers"] =
                           [pc |-> "done", outcome |-> outcome, result |-> indexers]]
           /\ IF indexers.ok
              THEN /\ topology' =
                          [topology EXCEPT !.indexers =
                              [i \in {indexers.v[k].id : k \in 1..Len(indexers.v)} |->
                                  indexers.v[CHOOSE k \in 1..Len(indexers.v) :
                                                 indexers.v[k].id = i]]]
                   /\ fu' = [i \in Indexers |->
                                IF i \in DOMAIN topology'.indexers
                                THEN FuStart(topology'.indexers[i])
                                ELSE FuAbsent(i)]
                   /\ client_lock' = None
                   /\ UNCHANGED <<lockVars, network>>
              ELSE /\ FetchUpdateErr
                   /\ UNCHANGED topology
    /\ UNCHANGED <<notFT, cfgVars, calls, min_scalar_tap_version>>

\* The second branch: the fetch of the subgraphs under the timeout.
FetchSubgraphs ==
    /\ network.status = "pending"
    /\ fetch["subgraphs"].pc = "fetch"
    /\ client_lock = "subgraphs"
    /\ \E outcome \in FetchOutcomesOf(FetchedSubgraphsSet) :
        LET subgraphs == WithinTimeout(outcome, fetch_and_pre_process_subgraphs_info(outcome),
                                       "subgraphs info fetch timed out",
                                       "subgraphs info fetch failed")
        IN /\ fetch' = [fetch EXCEPT !["subgraphs"] =
                           [pc |-> "done", outcome |-> outcome, result |-> subgraphs]]
           /\ IF subgraphs.ok
              THEN /\ topology' = [topology EXCEPT !.subgraphs = subgraphs.v]
                   /\ client_lock' = None
                   /\ UNCHANGED <<lockVars, fu, network>>
              ELSE /\ FetchUpdateErr
                   /\ UNCHANGED topology
    /\ UNCHANGED <<notFT, cfgVars, calls, min_scalar_tap_version>>

\* process_indexers_info has joined the futures of the indexers.
IndexersProcessed ==
    /\ network.status = "pending"
    /\ fetch["indexers"].pc = "done"
    /\ \A i \in Indexers : fu[i].pc \in {"done", "absent"}

\* process_indexers_info returns an error when no indexer is left.
ProcessIndexersInfoErr ==
    /\ IndexersProcessed
    /\ DOMAIN IndexersInfoTable = {}
    /\ FetchUpdateErr
    /\ UNCHANGED <<notFT, cfgVars, calls, min_scalar_tap_version, topology, fetch>>

\* Both branches of try_join are Ok: the snapshot is constructed.
FetchUpdateOk ==
    /\ IndexersProcessed
    /\ DOMAIN IndexersInfoTable # {}
    /\ fetch["subgraphs"].pc = "done"
    /\ network' = construct_network_topology_snapshot(IndexersInfoTable, topology.subgraphs)
    /\ UNCHANGED <<notFT, ftVars, cfgVars, lockVars, calls, min_scalar_tap_version, topology,
                   fu>>

NextFT ==
    \/ \E b \in {"indexers", "subgraphs"} : ClientLock(b)
    \/ FetchIndexers
    \/ FetchSubgraphs
    \/ \E i \in Indexers :
        \/ FuCheckAddrBlocklist(i)
        \/ FuHostLock(i)
        \/ FuHostResolve(i)
        \/ FuResolveAgentVersion(i)
        \/ FuResolveGraphNodeVersion(i)
        \/ FuPoiNotAffected(i)
        \/ FuPoiLock(i)
        \/ FuPoiResolve(i)
        \/ FuResolveIndexingStatus(i)
        \/ FuResolveCostModels(i)
    \/ ProcessIndexersInfoErr
    \/ FetchUpdateOk

SpecFT == InitFT /\ [][NextFT]_vars

(***************************************************************************)
(* handle_ready (graph-gateway/src/main.rs).                               *)
(***************************************************************************)
\* The chains of the configuration: block_caches has an entry for each.
Chains == {"mainnet", "gnosis"}

\* ReadyData at startup: no chain head observed, no allocations written.
InitRD ==
    /\ \E configured \in SUBSET Chains :
          ready_data = [elapsed |-> 0,
                        chain_head |-> [c \in configured |-> FALSE],
                        allocations |-> NoneOf(0)]
    /\ ready_responses = <<>>
    /\ InitSignerIdle
    /\ InitRequestIdle
    /\ InitFetchIdle
    /\ InitManifestIdle
    /\ addr_blocklist = NoneOf({})
    /\ host_blocklist = NoneOf({})
    /\ version_requirements \in VersionRequirementsSet
    /\ poi_blocklist = NoneOf({})
    /\ raw = None
    /\ proc = None
    /\ host_resolver_lock = None
    /\ poi_resolver_lock = None
    /\ poi_cache = EmptyMap
    /\ now = 0
    /\ calls = [i \in Indexers |-> <<>>]
    /\ refresh = 0
    /\ min_scalar_tap_version = <<0, 0, 0>>
    /\ topology = None
    /\ fu = None
    /\ network = None

\* A second passes.
Tick ==
    /\ ready_data.elapsed < MaxUptime
    /\ ready_data' = [ready_data EXCEPT !.elapsed = @ + 1]
    /\ UNCHANGED <<notRD, ready_responses>>

\* The head of a chain is observed: chain_head has a value from then on.
ChainHeadObserved(c) ==
    /\ c \in DOMAIN ready_data.chain_head
    /\ ~ready_data.chain_head[c]
    /\ ready_data' = [ready_data EXCEPT !.chain_head[c] = TRUE]
    /\ UNCHANGED <<notRD, ready_responses>>

\* The allocations eventual is written with a map of n allocations.
AllocationsWritten(n) ==
    /\ ready_data.allocations # Some(n)
    /\ ready_data' = [ready_data EXCEPT !.allocations = Some(n)]
    /\ UNCHANGED <<notRD, ready_responses>>

\* Mutant: ready from the 30th second on.
timer_ready_AtDelay(data) == data.elapsed >= READY_DELAY

\* data.start_time.elapsed() > Duration::from_secs(30)
timer_ready(data) == data.elapsed > READY_DELAY

block_caches_ready(data) == \A c \in DOMAIN data.chain_head : data.chain_head[c]

\* .value_immediate().map(|map| map.len()).unwrap_or(0) > 0
allocations_ready(data) == (IF data.allocations.some THEN data.allocations.v ELSE 0) > 0

handle_ready ==
    /\ Len(ready_responses) < MaxResponses
    /\ ready_responses' =
           Append(ready_responses,
                  IF timer_ready(ready_data) /\ block_caches_ready(ready_data)
                                             /\ allocations_ready(ready_data)
                  THEN 200 ELSE 425)
    /\ UNCHANGED <<notRD, ready_data>>

NextRD ==
    \/ Tick
    \/ \E c \in Chains : ChainHeadObserved(c)
    \/ \E n \in 0..MaxAllocations : AllocationsWritten(n)
    \/ handle_ready

SpecRD == InitRD /\ [][NextRD]_vars

(***************************************************************************)
(* manifest_client::create (src/manifest_client.rs).                       *)
(*                                                                         *)
(* The closure of subgraphs.map runs once for every deployment list it is  *)
(* handed, one run after the other.  An entry of the manifests map is the  *)
(* Eventual of a spawned task, named here by the index of the task.        *)
(***************************************************************************)
notMC == <<cfgVars, piVars, lockVars, calls, fuVars, rcVars, rqVars, ftVars, rdVars>>

\* The deployment lists the `subgraphs` eventual hands on; a Vec may name a
\* deployment twice.
DeploymentLists == {<<"d1">>, <<"d1", "d2">>, <<"d2", "d2">>}

\* What the IPFS client returns for a manifest: an error of cat, a payload
\* that is not a manifest, a manifest without a network, a manifest.
ManifestPayloads == {"cat error", "invalid yaml", "no network", "manifest"}

\* fetch_manifest
fetch_manifest(payload) ==
    CASE payload = "cat error" -> Err("cat error")
      [] payload = "invalid yaml" -> Err("invalid yaml")
      [] payload = "no network" -> Err("Network not found")
      [] payload = "manifest" -> Ok

\* A task spawned by Eventual::spawn, with the writes made to its Eventual.
NewManifestTask(deployment) ==
    [deployment |-> deployment, pc |-> "fetch", writes |-> 0, retried |-> FALSE,
     fetched_after_write |-> FALSE]

InitMC ==
    /\ deployment_list = NoneOf(<<>>)
    /\ manifests = [d \in Deployments |-> 0]
    /\ manifest_tasks = <<>>
    /\ subgraph_info_map = None
    /\ InitSignerIdle
    /\ InitRequestIdle
    /\ InitFetchIdle
    /\ InitReadyIdle
    /\ addr_blocklist = NoneOf({})
    /\ host_blocklist = NoneOf({})
    /\ version_requirements \in VersionRequirementsSet
    /\ poi_blocklist = NoneOf({})
    /\ raw = None
    /\ proc = None
    /\ host_resolver_lock = None
    /\ poi_resolver_lock = None
    /\ poi_cache = EmptyMap
    /\ now = 0
    /\ calls = [i \in Indexers |-> <<>>]
    /\ refresh = 0
    /\ min_scalar_tap_version = <<0, 0, 0>>
    /\ topology = None
    /\ fu = None
    /\ network = None

\* Remove deployments not present in updated set
RemoveStale(map, subgraphs) ==
    [d \in Deployments |-> IF d \in SeqToSet(subgraphs) THEN map[d] ELSE 0]

\* Mutant: every entry is dropped, so that every deployment is fetched again.
UnresolvedAll(map, subgraphs) == subgraphs

\* The deployments of the list without an entry, in the order of the list
Unresolved(map, subgraphs) == Retain(subgraphs, {d \in Deployments : map[d] = 0})

\* The closure of subgraphs.map for one deployment list (an eventual hands
\* on a value that differs from the one before): under the lock of the map,
\* the stale entries are removed, a task is spawned and inserted for every
\* unresolved deployment, and a copy of the map is published.
UpdateDeployments(subgraphs) ==
    /\ deployment_list # Some(subgraphs)
    /\ Len(manifest_tasks) + Len(Unresolved(RemoveStale(manifests, subgraphs), subgraphs))
           <= MaxTasks
    /\ deployment_list' = Some(subgraphs)
    /\ LET kept == RemoveStale(manifests, subgraphs)
           unresolved == Unresolved(kept, subgraphs)
           last(d) == CHOOSE k \in 1..Len(unresolved) :
                         /\ unresolved[k] = d
                         /\ \A j \in 1..Len(unresolved) : unresolved[j] = d => j <= k
       IN /\ manifest_tasks' =
                 manifest_tasks \o [k \in 1..Len(unresolved) |-> NewManifestTask(unresolved[k])]
          /\ manifests' = [d \in Deployments |->
                              IF d \in SeqToSet(unresolved)
                              THEN Len(manifest_tasks) + last(d)
                              ELSE kept[d]]
    /\ subgraph_info_map' = manifests'
    /\ UNCHANGED notMC

\* Mutant: the task goes on fetching after it has written the info.
FetchManifestNoReturn(t) ==
    /\ t \in 1..Len(manifest_tasks)
    /\ manifest_tasks[t].pc = "fetch"
    /\ manifest_tasks[t].writes < 2
    /\ \E payload \in ManifestPayloads :
          manifest_tasks' =
              [manifest_tasks EXCEPT ![t] =
                  IF fetch_manifest(payload).ok
                  THEN [@ EXCEPT !.writes = @ + 1,
                                 !.fetched_after_write = manifest_tasks[t].writes > 0]
                  ELSE [@ EXCEPT !.pc = "sleep", !.retried = TRUE,
                                 !.fetched_after_write = manifest_tasks[t].writes > 0]]
    /\ UNCHANGED <<notMC, deployment_list, manifests, subgraph_info_map>>

\* One turn of the loop of a task: fetch_manifest; Ok: the info is written and
\* the task returns; Err: the task sleeps before it tries again.
FetchManifest(t) ==
    /\ t \in 1..Len(manifest_tasks)
    /\ manifest_tasks[t].pc = "fetch"
    /\ \E payload \in ManifestPayloads :
          manifest_tasks' =
              [manifest_tasks EXCEPT ![t] =
                  IF fetch_manifest(payload).ok
                  THEN [@ EXCEPT !.pc = "done", !.writes = @ + 1,
                                 !.fetched_after_write = manifest_tasks[t].writes > 0]
                  ELSE [@ EXCEPT !.pc = "sleep", !.retried = TRUE,
                                 !.fetched_after_write = manifest_tasks[t].writes > 0]]
    /\ UNCHANGED <<notMC, deployment_list, manifests, subgraph_info_map>>

\* sleep(Duration::from_secs(20)).await has ended
SleepEnds(t) ==
    /\ t \in 1..Len(manifest_tasks)
    /\ manifest_tasks[t].pc = "sleep"
    /\ manifest_tasks' = [manifest_tasks EXCEPT ![t].pc = "fetch"]
    /\ UNCHANGED <<notMC, deployment_list, manifests, subgraph_info_map>>

\* The task whose Eventual is an entry of the map
InManifests(t) == \E d \in Deployments : manifests[d] = t

\* The Eventual of a task that is no longer in the map is dropped with the
\* last published copy that holds it; the task then ends at an await.
TaskDropped(t) ==
    /\ t \in 1..Len(manifest_tasks)
    /\ ~InManifests(t)
    /\ manifest_tasks[t].pc \in {"fetch", "sleep"}
    /\ manifest_tasks' = [manifest_tasks EXCEPT ![t].pc = "dropped", ![t].retried = FALSE]
    /\ UNCHANGED <<notMC, deployment_list, manifests, subgraph_info_map>>

NextMC ==
    \/ \E subgraphs \in DeploymentLists : UpdateDeployments(subgraphs)
    \/ \E t \in 1..MaxTasks :
        \/ FetchManifest(t)
        \/ SleepEnds(t)
        \/ TaskDropped(t)

SpecMC == InitMC /\ [][NextMC]_vars

\* The fetch of a task that succeeds
FetchManifestOk(t) == FetchManifest(t) /\ manifest_tasks'[t].pc = "done"

\* The tasks are scheduled, a sleep ends, and no manifest fails to be fetched
\* for ever.
SpecMCLive ==
    /\ SpecMC
    /\ \A t \in 1..MaxTasks :
          /\ WF_vars(SleepEnds(t))
          /\ SF_vars(FetchManifestOk(t))

(***************************************************************************)
(* Properties of process_info, checked under SpecPI.                       *)
(***************************************************************************)
ResolverOrder ==
    <<"host", "agent_version", "graph_node_version", "poi", "progress", "cost_models">>

Rank(resolver) == CHOOSE k \in 1..Len(ResolverOrder) : ResolverOrder[k] = resolver

\* The stage that reports an error.
StageOfErr(err) ==
    CASE err \in {"HostResolutionFailed", "BlockedByHostBlocklist"} -> "host"
      [] err \in {"AgentVersionResolutionFailed", "AgentVersionBelowMin"} -> "agent_version"
      [] err = "GraphNodeVersionBelowMin" -> "graph_node_version"
      [] err \in {"IndexingPoisResolutionFailed", "AllIndexingsBlockedByPoiBlocklist"} -> "poi"
      [] err \in {"IndexingProgressResolutionFailed", "IndexingProgressUnavailable"}
            -> "progress"
      [] OTHER -> "addr"

\* C1: the resolvers of an indexer are called in the fixed order (address
\* blocklist, host, agent version, graph-node version, POI, progress, cost
\* models; the POI resolver only when the blocklist concerns the indexer); an
\* indexer on the address blocklist gets that error before any call; an error
\* result is the error of the stage of the last call, a blocking outcome of a
\* call is the last call, and only a run through all stages yields Ok.
C1_StagesInOrder ==
    \A i \in Indexers :
        LET c == calls[i]
            p == proc[i]
        IN
        /\ \A k \in 1..Len(c) :
              \/ Rank(c[k][1]) = (IF k = 1 THEN 1 ELSE Rank(c[k - 1][1]) + 1)
              \/ k > 1 /\ c[k][1] = "progress" /\ c[k - 1][1] = "graph_node_version"
        /\ (addr_blocklist.some /\ raw[i].id \in addr_blocklist.v /\ p.pc # "addr")
              => (p.status = "err" /\ p.err = "BlockedByAddrBlocklist" /\ c = <<>>)
        /\ p.status = "err" =>
              IF p.err = "BlockedByAddrBlocklist"
              THEN c = <<>>
              ELSE c # <<>> /\ c[Len(c)][1] = StageOfErr(p.err)
        /\ p.status = "ok" => (c # <<>> /\ c[Len(c)][1] = "cost_models")
        /\ \A k \in 1..Len(c) :
              (c[k][1] \in {"host", "agent_version", "progress"} /\ c[k][2] # "ok")
                 => (k = Len(c) /\ p.status = "err")

\* An indexer blocked at the agent version stage, after two calls.
C1_Witness ==
    \E i \in Indexers :
        /\ proc[i].status = "err"
        /\ proc[i].err = "AgentVersionBelowMin"
        /\ Len(calls[i]) = 2

\* C3: when the future of an indexer returns Ok, at least one entry of its
\* indexings is Ok, and an entry is Ok only for an indexing that the POI check
\* did not block and for which progress was resolved.
C3_OkHasHealthyIndexing ==
    [][\A i \in Indexers :
          (proc[i].status = "pending" /\ proc'[i].status = "ok") =>
              LET indexings == proc'[i].info.indexings IN
              /\ \E d \in DOMAIN indexings : indexings[d].status = "Ok"
              /\ \A d \in DOMAIN indexings :
                    indexings[d].status = "Ok" =>
                        /\ d \notin proc[i].blocked_indexings_by_poi
                        /\ d \in DOMAIN proc[i].indexer_progress
                        /\ proc[i].indexer_progress[d].ok
                        /\ indexings[d].progress = ProgressInfo]_vars

\* An Ok indexer with a healthy indexing next to a POI-blocked one.
C3_Witness ==
    \E i \in Indexers :
        /\ proc[i].status = "ok"
        /\ \E d \in DOMAIN proc[i].info.indexings :
              proc[i].info.indexings[d].status = "BlockedByPoiBlocklist"
        /\ \E d \in DOMAIN proc[i].info.indexings : proc[i].info.indexings[d].status = "Ok"

\* C6: an indexer whose result is Ok has an agent version and a graph-node
\* version that are not below the minimum, and an indexer that reported a
\* version below the minimum is blocked by that call.
C6_VersionsSupported ==
    \A i \in Indexers :
        LET c == calls[i]
            p == proc[i]
        IN
        /\ p.status = "ok" =>
              /\ ~VersionLt(p.info.indexer_agent_version,
                            version_requirements.min_agent_version)
              /\ ~VersionLt(p.info.graph_node_version,
                            version_requirements.min_graph_node_version)
        /\ \A k \in 1..Len(c) :
              /\ (c[k][1] = "agent_version" /\ c[k][2] = "ok"
                    /\ VersionLt(c[k][3], version_requirements.min_agent_version))
                    => (k = Len(c) /\ p.status = "err" /\ p.err = "AgentVersionBelowMin")
              /\ (c[k][1] = "graph_node_version" /\ c[k][2] = "ok"
                    /\ VersionLt(c[k][3], version_requirements.min_graph_node_version))
                    => (k = Len(c) /\ p.status = "err" /\ p.err = "GraphNodeVersionBelowMin")

\* One indexer passed the version stage, another reported an old graph node.
C6_Witness ==
    \E i, j \in Indexers :
        /\ proc[i].status = "ok"
        /\ proc[j].status = "err"
        /\ proc[j].err = "GraphNodeVersionBelowMin"

CachedPois(i) ==
    [k \in {q \in PoiAffected(i) :
               /\ <<raw[i].url, q>> \in DOMAIN poi_cache
               /\ now - poi_cache[<<raw[i].url, q>>].at < DEFAULT_CACHE_TLL} |->
        poi_cache[<<raw[i].url, k>>].poi]

\* C11: when the POI fetch of an indexer times out, the cache is left
\* unchanged; the resolution fails with the timeout error when the cache holds
\* no unexpired POI for any of the requested keys, and otherwise the pipeline
\* goes on with exactly the unexpired cached POIs of the requested keys.
C11_FailedFetchFallsBackToCache ==
    [][\A i \in Indexers :
          ( /\ Len(calls'[i]) = Len(calls[i]) + 1
            /\ calls'[i][Len(calls'[i])][1] = "poi"
            /\ calls'[i][Len(calls'[i])][2] = "timeout" ) =>
              /\ poi_cache' = poi_cache
              /\ proc'[i] =
                    IF DOMAIN CachedPois(i) = {}
                    THEN ReturnErr("IndexingPoisResolutionFailed")
                    ELSE AfterPoi(proc[i], BlockedIndexings(poi_blocklist.v, CachedPois(i),
                                                            proc[i].indexer_indexings))]_vars

\* In a later refresh the fetch of an indexer timed out and the indexer went
\* on to the progress stage with the POIs of the cache.
C11_Witness ==
    \E i \in Indexers :
        /\ refresh > 1
        /\ proc[i].pc = "progress"
        /\ calls[i] # <<>>
        /\ calls[i][Len(calls[i])][1] = "poi"
        /\ calls[i][Len(calls[i])][2] = "timeout"
        /\ DOMAIN CachedPois(i) # {}

\* C12: a resolve for an indexer all of whose requested keys have an
\* unexpired POI in the cache sends no request to the indexer and returns the
\* cached POIs.
C12_CachedResolveSendsNoRequest ==
    [][\A i \in Indexers :
          ( /\ proc[i].pc = "poi_resolve"
            /\ proc'[i].pc # "poi_resolve"
            /\ DOMAIN CachedPois(i) = PoiAffected(i) ) =>
              /\ calls'[i] = calls[i]
              /\ proc'[i] = AfterPoi(proc[i], BlockedIndexings(poi_blocklist.v, CachedPois(i),
                                                               proc[i].indexer_indexings))]_vars

C34_ProgressLookupNeverPanics ==
    \A i \in Indexers :
        /\ proc[i].status # "panic"
        /\ proc[i].pc = "cost_models" =>
               \A id \in DOMAIN raw[i].indexings :
                   id \notin proc[i].blocked_indexings_by_poi =>
                       id \in DOMAIN proc[i].indexer_progress

\* An IndexerInfo was constructed for an indexer one of whose indexings the
\* progress resolver did not answer for, and one of whose indexings it did.
C34_Witness ==
    \E i \in Indexers :
        /\ proc[i].status = "ok"
        /\ \E id \in DOMAIN proc[i].info.indexings :
              proc[i].info.indexings[id].status = "ProgressNotFound"
        /\ \E id \in DOMAIN proc[i].info.indexings :
              proc[i].info.indexings[id].status = "Ok"

\* C29: after a successful POI fetch the pipeline goes on with the freshly
\* fetched POIs together with the unexpired cached POIs of the requested keys
\* that are missing from the fetched data, the fresh value winning for a key
\* in both, and every fresh value is written to the cache.
C29_FreshMergedWithCachedMissing ==
    [][\A i \in Indexers :
          ( /\ Len(calls'[i]) = Len(calls[i]) + 1
            /\ calls'[i][Len(calls'[i])][1] = "poi"
            /\ calls'[i][Len(calls'[i])][2] = "ok" ) =>
              LET fetched == calls'[i][Len(calls'[i])][3]
                  fresh == {k \in DOMAIN fetched.data : fetched.data[k].ok}
                  merged == [k \in fresh \cup DOMAIN CachedPois(i) |->
                                IF k \in fresh THEN fetched.data[k].poi ELSE CachedPois(i)[k]]
              IN /\ \A k \in fresh :
                        /\ <<raw[i].url, k>> \in DOMAIN poi_cache'
                        /\ poi_cache'[<<raw[i].url, k>>] = [poi |-> fetched.data[k].poi, at |-> now]
                 /\ proc'[i] = AfterPoi(proc[i], BlockedIndexings(poi_blocklist.v, merged,
                                                                  proc[i].indexer_indexings))]_vars

\* C30: the resolutions of different indexers run in parallel: while the host
\* resolution of one indexer is in flight, an indexer that has reached its own
\* host resolution can start it, and likewise for the POI resolutions.
C30_ResolutionsRunInParallel ==
    \A i \in Indexers : \A j \in Indexers \ {i} :
        /\ (proc[i].pc = "host" /\ proc[j].pc = "host_lock") => ENABLED HostLock(j)
        /\ ( /\ proc[i].pc = "poi_resolve"
             /\ proc[j].pc = "poi"
             /\ poi_blocklist.some
             /\ PoiAffected(j) # {} ) => ENABLED PoiLock(j)

(***************************************************************************)
(* Properties of fetch_update, checked under SpecFU.                       *)
(***************************************************************************)
\* All the indexings reachable from the subgraphs and the deployments of the
\* snapshot.
NetworkIndexings ==
    UNION {{network.subgraphs[sid].indexings[id] :
               id \in DOMAIN network.subgraphs[sid].indexings} :
              sid \in DOMAIN network.subgraphs}
    \cup
    UNION {{network.deployments[d].indexings[id] :
               id \in DOMAIN network.deployments[d].indexings} :
              d \in DOMAIN network.deployments}

\* C2: every indexing reachable from a subgraph or a deployment of the
\* snapshot refers to an indexer of the processed indexers table, and its
\* deployment is in the healthy deployments list of that indexer.
C2_IndexingsReferToHealthyIndexers ==
    network.status = "ok" =>
        \A indexing \in NetworkIndexings :
            /\ indexing.id[1] \in Indexers
            /\ fu[indexing.id[1]].kept
            /\ indexing.indexer.id = indexing.id[1]
            /\ indexing.id[2] \in SeqToSet(fu[indexing.id[1]].indexer.deployments)

\* A snapshot with indexings, built while one indexer was filtered out and the
\* other lost a deployment to the POI blocklist.
C2_Witness ==
    /\ network.status = "ok"
    /\ NetworkIndexings # {}
    /\ \E i \in Indexers : ~fu[i].kept
    /\ \E i \in Indexers :
          /\ fu[i].kept
          /\ Len(fu[i].indexer.deployments) < Len(topology.indexers[i].deployments)

\* C4, as claimed: an indexer is kept only with progress for at least one
\* deployment, only the deployments with progress stay in its list, and every
\* indexing of the snapshot carries a resolved status.
C4_IndexingsHaveStatus ==
    /\ \A i \in Indexers :
          fu[i].kept =>
              /\ DOMAIN fu[i].indexer.indexings_status # {}
              /\ SeqToSet(fu[i].indexer.deployments) \subseteq
                     DOMAIN fu[i].indexer.indexings_status
    /\ network.status = "ok" => \A indexing \in NetworkIndexings : indexing.status.some

\* The deployments of an indexer for which a POI answer matches the blocklist.
ReportedBlocked(i, fetched) ==
    {d \in SeqToSet(topology.indexers[i].deployments) :
        \E key \in DOMAIN fetched.data :
            /\ key[1] = d
            /\ fetched.data[key].ok
            /\ [deployment |-> d, block |-> key[2], poi |-> fetched.data[key].poi]
                   \in poi_blocklist.v}

\* C5: when the POI blocklist is configured and the indexer reports the
\* blocked POI of a blocklisted (deployment, block), that deployment is removed
\* from the indexer's deployments list and the indexing is in no subgraph and
\* no deployment of the snapshot; when all the deployments of the indexer are
\* removed so, the indexer is filtered out.
C5_BlockedPoiRemovesIndexing ==
    \A i \in Indexers :
        \A k \in 1..Len(calls[i]) :
            (calls[i][k][1] = "poi" /\ calls[i][k][2] = "ok" /\ poi_blocklist.some) =>
                LET bad == ReportedBlocked(i, calls[i][k][3]) IN
                /\ fu[i].pc # "done" =>
                      bad \cap SeqToSet(fu[i].indexer.deployments) = {}
                /\ fu[i].kept => bad \cap SeqToSet(fu[i].indexer.deployments) = {}
                /\ network.status = "ok" =>
                      \A indexing \in NetworkIndexings :
                          ~(indexing.id[1] = i /\ indexing.id[2] \in bad)
                /\ bad = SeqToSet(topology.indexers[i].deployments) =>
                      (fu[i].pc = "done" /\ ~fu[i].kept)

\* A snapshot in which an indexer that reported a blocked POI still serves its
\* other deployment.
C5_Witness ==
    /\ network.status = "ok"
    /\ \E i \in Indexers :
          /\ fu[i].kept
          /\ \E k \in 1..Len(calls[i]) :
                /\ calls[i][k][1] = "poi"
                /\ calls[i][k][2] = "ok"
                /\ ReportedBlocked(i, calls[i][k][3]) # {}
          /\ \E indexing \in NetworkIndexings : indexing.id[1] = i

\* The input subgraphs with a given id.
InputSubgraphs(sid) ==
    {topology.subgraphs[k] : k \in {j \in 1..Len(topology.subgraphs) :
                                        topology.subgraphs[j].id = sid}}

C37_NewestDeploymentNotBehind ==
    network.status = "ok" =>
        \A sid \in DOMAIN network.subgraphs :
            \A subgraph \in InputSubgraphs(sid) :
                \A id \in DOMAIN network.subgraphs[sid].indexings :
                    id[2] = subgraph.versions[1].deployment.id =>
                        network.subgraphs[sid].indexings[id].versions_behind = 0

\* C38: in every snapshot, each deployment id in a subgraph's deployments set
\* is a key of the snapshot's deployments map, and each subgraph id in a
\* deployment's subgraphs set is a key of the snapshot's subgraphs map.
C38_SnapshotCrossReferencesResolve ==
    network.status = "ok" =>
        /\ \A sid \in DOMAIN network.subgraphs :
               network.subgraphs[sid].deployments \subseteq DOMAIN network.deployments
        /\ \A d \in DOMAIN network.deployments :
               network.deployments[d].subgraphs \subseteq DOMAIN network.subgraphs

\* A snapshot in which a subgraph names a deployment and a deployment names a
\* subgraph, while an input subgraph and a deployment of the input were left
\* out of it.
C38_Witness ==
    /\ network.status = "ok"
    /\ \E sid \in DOMAIN network.subgraphs : network.subgraphs[sid].deployments # {}
    /\ \E d \in DOMAIN network.deployments : network.deployments[d].subgraphs # {}
    /\ \E k \in 1..Len(topology.subgraphs) :
          topology.subgraphs[k].id \notin DOMAIN network.subgraphs
    /\ DOMAIN DeploymentsInfoTable(topology.subgraphs) # DOMAIN network.deployments

\* An input subgraph has an indexing left when one of the allocations of one of
\* its versions' deployments belongs to an indexer that was not filtered out
\* and that still lists the deployment.
HasIndexingLeft(subgraph) ==
    \E k \in 1..Len(subgraph.versions) :
        \E a \in 1..Len(subgraph.versions[k].deployment.allocations) :
            LET i == subgraph.versions[k].deployment.allocations[a].indexer IN
            /\ i \in Indexers
            /\ fu[i].kept
            /\ subgraph.versions[k].deployment.id \in SeqToSet(fu[i].indexer.deployments)

\* C25: every subgraph of the snapshot has at least one indexing and at least
\* one deployment, and an input subgraph all of whose indexings were filtered
\* out is not in the snapshot.
C25_SubgraphsHaveIndexings ==
    network.status = "ok" =>
        /\ \A sid \in DOMAIN network.subgraphs :
              /\ DOMAIN network.subgraphs[sid].indexings # {}
              /\ network.subgraphs[sid].deployments # {}
        /\ \A k \in 1..Len(topology.subgraphs) :
              ~HasIndexingLeft(topology.subgraphs[k]) =>
                  topology.subgraphs[k].id \notin DOMAIN network.subgraphs

\* A snapshot from which one input subgraph is absent because its indexings
\* were filtered out, while another one is present.
C25_Witness ==
    /\ network.status = "ok"
    /\ DOMAIN network.subgraphs # {}
    /\ \E k \in 1..Len(topology.subgraphs) :
          /\ ~HasIndexingLeft(topology.subgraphs[k])
          /\ topology.subgraphs[k].id \notin DOMAIN network.subgraphs

\* C26: every deployment of the snapshot has at least one indexing and is
\* referred to by at least one subgraph that is in the snapshot and lists it.
C26_DeploymentsHaveIndexingsAndSubgraphs ==
    network.status = "ok" =>
        \A d \in DOMAIN network.deployments :
            /\ DOMAIN network.deployments[d].indexings # {}
            /\ network.deployments[d].subgraphs # {}
            /\ \A sid \in network.deployments[d].subgraphs :
                  /\ sid \in DOMAIN network.subgraphs
                  /\ d \in network.subgraphs[sid].deployments

\* A snapshot with a deployment, built from a topology one of whose
\* deployments was left out of the snapshot.
C26_Witness ==
    /\ network.status = "ok"
    /\ DOMAIN network.deployments # {}
    /\ \E d \in DOMAIN DeploymentsInfoTable(topology.subgraphs) :
          d \notin DOMAIN network.deployments

(***************************************************************************)
(* Properties of the receipt signer, checked under SpecRC.                 *)
(***************************************************************************)
PoolsOf(a) == {p \in DOMAIN pools : pools[p].allocation = a}

\* C8: whatever the interleaving of create_legacy_receipt calls, at most one
\* receipt pool is ever created for an allocation, every legacy receipt of
\* the allocation is committed in the pool the map holds for it, and
\* record_receipt releases it to the pool it was committed in.
C8_OnePoolPerAllocation ==
    /\ \A a \in Allocations : Cardinality(PoolsOf(a)) <= 1
    /\ \A r \in DOMAIN receipts :
           receipts[r].kind = "Legacy" =>
              /\ receipt_pools[receipts[r].allocation] \in {0, receipts[r].pool}
              /\ receipts[r].state = "recorded" => receipts[r].released_to = receipts[r].pool

\* C9: a legacy receipt that its holder dropped without record_receipt has
\* been released to its pool with the failure status.
C9_DroppedReceiptReleased ==
    \A r \in DOMAIN receipts :
        (receipts[r].kind = "Legacy" /\ receipts[r].state = "dropped") =>
            /\ r \notin pools[receipts[r].pool].outstanding
            /\ <<r, "Failure">> \in pools[receipts[r].pool].released

\* C10: a step of record_receipt made by a handler that holds a TAP receipt
\* changes neither the pool map nor any pool, nor any of their locks.
C10_TapRecordIsNoOp ==
    [][\A t \in Callers :
          ( /\ callers[t].pc \in {"holding", "record_read", "record_locked"}
            /\ receipts[callers[t].receipt].kind = "Tap"
            /\ callers'[t] # callers[t]
            /\ receipts'[callers[t].receipt].state # "dropped" )
          => UNCHANGED <<receipt_pools, pools, map_lock, pool_lock>>]_vars

\* A TAP receipt was recorded for an allocation whose pool has a receipt
\* outstanding.
C10_Witness ==
    \E r \in DOMAIN receipts :
        /\ receipts[r].kind = "Tap"
        /\ receipts[r].state = "recorded"
        /\ receipts[r].recorded_for \in Allocations
        /\ receipt_pools[receipts[r].recorded_for] # 0
        /\ pools[receipt_pools[receipts[r].recorded_for]].outstanding # {}

(***************************************************************************)
(* Properties of the request handling, checked under SpecRQ.               *)
(***************************************************************************)
\* C15: the number of indexer attempts of a request never exceeds
\* indexer_selection_retry_limit.
C15_AttemptsCappedByRetryLimit ==
    Len(query.indexer_attempts) <= ctx.indexer_selection_retry_limit

\* A request that ended after as many failed attempts as the limit allows,
\* with candidates left.
C15_Witness ==
    /\ query.pc = "done"
    /\ ctx.indexer_selection_retry_limit > 0
    /\ Len(query.indexer_attempts) = ctx.indexer_selection_retry_limit
    /\ request.candidates > ctx.indexer_selection_retry_limit

\* C16: every attempt but the last one failed, a failed attempt leaves the
\* request in the loop or ends it with an error, and when execute_query has
\* returned Ok at least one attempt is recorded and the last one holds a
\* successful result: the handler does not panic.
C16_OkMeansLastAttemptSucceeded ==
    LET attempts == query.indexer_attempts IN
    /\ \A k \in 1..(Len(attempts) - 1) : attempts[k].result # "Ok"
    /\ query.result = "Ok" =>
          /\ attempts # <<>>
          /\ attempts[Len(attempts)].result = "Ok"
    /\ query.pc # "panicked"
    /\ (request.handler = "main" /\ query.pc = "done" /\ query.response.ok) =>
          query.result = "Ok"

\* A request answered by its second candidate after an unattestable response
\* from the first.
C16_Witness ==
    /\ query.pc = "done"
    /\ query.response.ok
    /\ Len(query.indexer_attempts) = 2
    /\ query.indexer_attempts[1].result = "UnattestableResponse"

\* C17: check_token answers with a payment error exactly when payment is
\* required, the key is neither subsidized nor special and its query status
\* is not Active; the error of an Inactive key is not the error of a key in
\* ServiceShutoff.
C17_PaymentRejection ==
    (request.handler = "studio" /\ query.pc = "done" /\ request.token = ctx.api_key.key) =>
        LET key == ctx.api_key
            inactive == "Querying not activated yet; make sure to add some GRT to your balance in the studio"
            shutoff == "Payment required for subsequent requests for this API key"
            gated == /\ ctx.api_key_payment_required
                     /\ ~key.is_subsidized
                     /\ key.key \notin ctx.special_api_keys
        IN
        /\ inactive # shutoff
        /\ (gated /\ key.query_status = "Inactive") => query.response = Err(inactive)
        /\ (gated /\ key.query_status = "ServiceShutoff") => query.response = Err(shutoff)
        /\ ~(gated /\ key.query_status # "Active") =>
              query.response.msg \notin {inactive, shutoff}

\* A special key in ServiceShutoff passes although payment is required.
C17_Witness ==
    /\ request.handler = "studio"
    /\ query.pc = "done"
    /\ request.token = ctx.api_key.key
    /\ ctx.api_key_payment_required
    /\ ~ctx.api_key.is_subsidized
    /\ ctx.api_key.key \in ctx.special_api_keys
    /\ ctx.api_key.query_status = "ServiceShutoff"
    /\ query.response.ok

\* C18: a request with the known key, whose authorized deployments are {D1},
\* for deployment D2 is rejected with "Subgraph not authorized by user" (the
\* key being active and listing no domains).
C18_UnauthorizedDeploymentMessage ==
    ( /\ query.pc = "done"
      /\ request.token = ctx.api_key.key
      /\ ctx.api_key.deployments = {"D1"}
      /\ request.deployment = "D2"
      /\ ctx.api_key.queries_activated
      /\ ctx.api_key.query_status = "Active"
      /\ ctx.api_key.domains = <<>> ) =>
        query.response = Err("Subgraph not authorized by user")

\* C19: a request that reaches the domain check is rejected by it exactly
\* when the key lists domains and the Origin host (none if the header is
\* missing) neither equals a listed domain nor ends with "." and that domain.
C19_DomainSuffixOnDotBoundary ==
    LET key == ctx.api_key
        matches ==
            /\ request.origin.some
            /\ \E k \in 1..Len(key.domains) :
                  \/ request.origin.v = key.domains[k]
                  \/ EndsWith(request.origin.v, <<".">> \o key.domains[k])
        rejected ==
            /\ query.pc = "done"
            /\ query.response.msg \in {"Domain not authorized by API key",
                                       "Domain not authorized by user"}
        reached ==
            /\ request.token = key.key
            /\ query.pc # "start"
            /\ request.handler = "main" => key.queries_activated
            /\ request.handler = "studio" =>
                  /\ query.pc = "done"
                  /\ query.response.msg \notin
                        {"Querying not activated yet; make sure to add some GRT to your balance in the studio",
                         "Payment required for subsequent requests for this API key",
                         "Deployment not authorized by user",
                         "Subgraph not authorized by user"}
    IN
    reached => (rejected <=> (key.domains # <<>> /\ ~matches))

\* C20: parse_studio_api_key answers InvalidLength(n) for a token of n # 32
\* bytes, whatever its bytes are, InvalidHex for a token of 32 bytes one of
\* which is not a hex digit, and the 16 bytes the digits encode for a token of
\* 32 hex digits; parse_bearer_token rejects a malformed token without a
\* lookup and a well-formed token that is not in the key map.
C20_ParseStudioApiKey ==
    (request.handler = "studio" /\ query.pc # "start") =>
        LET t == request.token
            digit == ("0" :> 0) @@ ("1" :> 1) @@ ("2" :> 2) @@ ("3" :> 3) @@ ("4" :> 4)
                     @@ ("5" :> 5) @@ ("6" :> 6) @@ ("7" :> 7) @@ ("8" :> 8) @@ ("9" :> 9)
                     @@ ("a" :> 10) @@ ("b" :> 11) @@ ("c" :> 12) @@ ("d" :> 13)
                     @@ ("e" :> 14) @@ ("f" :> 15)
                     @@ ("A" :> 10) @@ ("B" :> 11) @@ ("C" :> 12) @@ ("D" :> 13)
                     @@ ("E" :> 14) @@ ("F" :> 15)
            hex == \A k \in 1..Len(t) : t[k] \in DOMAIN digit
        IN
        /\ Len(t) # 32 =>
              /\ ~query.parsed.ok
              /\ query.parsed.err = "InvalidLength"
              /\ query.parsed.n = Len(t)
        /\ (Len(t) = 32 /\ ~hex) =>
              /\ ~query.parsed.ok
              /\ query.parsed.err = "InvalidHex"
        /\ (Len(t) = 32 /\ hex) =>
              /\ query.parsed.ok
              /\ query.parsed.bytes =
                    [j \in 1..16 |-> 16 * digit[t[2 * j - 1]] + digit[t[2 * j]]]
        /\ ~query.parsed.ok =>
              /\ query.pc = "done"
              /\ query.api_key = None
              /\ query.response = Err("Invalid api key format")
        /\ (query.parsed.ok /\ t # ctx.api_key.key) =>
              /\ query.pc = "done"
              /\ query.api_key = None
              /\ query.response = Err("API key not found")

\* A token of 33 bytes one of which is not a hex digit was answered with
\* InvalidLength(33).
C20_Witness ==
    /\ request.handler = "studio"
    /\ query.pc = "done"
    /\ Len(request.token) = 33
    /\ \E k \in 1..Len(request.token) : request.token[k] = "g"
    /\ query.parsed.err = "InvalidLength"
    /\ query.parsed.n = 33

\* C33: handle_subgraph_query sends exactly one client-query-result
\* notification, followed by one indexer-attempt record per recorded attempt
\* in attempt order, for every request whose subgraph resolves, whether the
\* request then succeeds or fails; it sends none for a request with an
\* invalid or unknown subgraph (and none before the handler returns).
C33_OneNotificationThenAttempts ==
    request.handler = "main" =>
        IF query.pc = "returned" /\ request.subgraph = "found"
        THEN /\ Len(kafka) = 1 + Len(query.indexer_attempts)
             /\ kafka[1].kind = "ClientQueryResult"
             /\ kafka[1].status = StatusResult(query.response)
             /\ \A k \in 1..Len(query.indexer_attempts) :
                   /\ kafka[k + 1].kind = "IndexerAttempt"
                   /\ kafka[k + 1].status = query.indexer_attempts[k].result
        ELSE kafka = <<>>

\* A request was answered after two attempts with different results, and the
\* notification and the two attempt records were sent.
C33_Witness ==
    /\ request.handler = "main"
    /\ query.pc = "returned"
    /\ Len(query.indexer_attempts) >= 2
    /\ query.indexer_attempts[1].result # query.indexer_attempts[2].result
    /\ Len(kafka) >= 3

\* C28: every outcome of handle_subgraph_query is answered with the HTTP
\* status 200: the handler never panics, a served query is answered with its
\* payload, and every failure (invalid subgraph identifier, unknown subgraph,
\* invalid API key, inactive key, unauthorized domain or deployment, an error
\* of the query engine) with the body {errors: {message}} of its message.
C28_EveryOutcomeIs200 ==
    request.handler = "main" =>
        /\ query.pc # "panicked"
        /\ query.pc = "returned" =>
              /\ query.http.status = 200
              /\ query.http.errors.some <=> query.result # "Ok"
              /\ request.subgraph = "invalid" =>
                    query.http.errors.v.message = "Invalid subgraph identifier"
              /\ request.subgraph = "unknown" =>
                    query.http.errors.v.message = "Subgraph not found"
              /\ (request.subgraph = "found" /\ request.token # ctx.api_key.key) =>
                    query.http.errors.v.message = "Invalid API key"
              /\ (request.subgraph = "found" /\ query.result # "Ok") =>
                    /\ ~query.response.ok
                    /\ query.http.errors.v.message = query.response.msg
              /\ query.result \in {"MalformedQuery", "NoIndexers", "NoIndexerSelected",
                                    "FeesTooHigh", "BlockBeforeMin", "MissingBlock"} =>
                    query.http.errors.v.message = QueryEngineErrorMessage(query.result)

\* A request the query engine could not resolve the blocks of, answered with
\* the status 200 and the message of the error.
C28_Witness ==
    /\ request.handler = "main"
    /\ query.pc = "returned"
    /\ query.result = "MissingBlock"
    /\ query.http.status = 200
    /\ query.http.errors.some

(***************************************************************************)
(* Properties of the fetches of fetch_update, checked under SpecFT.        *)
(***************************************************************************)
\* A fetch has ended without a usable list: it timed out, failed, returned
\* nothing, or nothing that the pre-processing accepts.
FetchUnusable(b) ==
    /\ fetch[b].pc = "done"
    /\ \/ fetch[b].outcome.kind \in {"timeout", "fail"}
       \/ fetch[b].outcome.v = <<>>
       \/ \A k \in 1..Len(fetch[b].outcome.v) :
              IF b = "indexers"
              THEN ~try_into_internal_indexer_info(fetch[b].outcome.v[k]).ok
              ELSE ~try_into_internal_subgraph_info(fetch[b].outcome.v[k]).ok

\* C21: fetch_update produces a snapshot only if the fetch of the indexers and
\* the fetch of the subgraphs both ended within their timeout with a non-empty
\* list that holds a valid entry; when one of them fails, times out, or
\* returns nothing usable, fetch_update returns an error and no snapshot,
\* whatever the other branch had produced.
C21_SnapshotNeedsBothFetches ==
    /\ network.status = "ok" =>
          \A b \in {"indexers", "subgraphs"} :
              /\ fetch[b].pc = "done"
              /\ fetch[b].outcome.kind = "ok"
              /\ fetch[b].outcome.v # <<>>
              /\ ~FetchUnusable(b)
    /\ \A b \in {"indexers", "subgraphs"} :
          FetchUnusable(b) =>
              /\ network.status = "error"
              /\ DOMAIN network.subgraphs = {}
              /\ DOMAIN network.deployments = {}

\* fetch_update has returned an error because the fetch of the subgraphs
\* timed out, after the indexers were fetched and resolvers had been called
\* for them.
C21_Witness ==
    /\ network.status = "error"
    /\ fetch["indexers"].pc = "done"
    /\ fetch["indexers"].result.ok
    /\ fetch["subgraphs"].pc = "done"
    /\ fetch["subgraphs"].outcome.kind = "timeout"
    /\ \E i \in Indexers : calls[i] # <<>>

\* C36: in fetch_update the indexers fetch and the subgraphs fetch never use
\* the network-subgraph client at the same time, the client lock is released
\* before per-indexer processing starts, and no interleaving of the two
\* branches deadlocks: until fetch_update returns, a branch or a future that
\* waits for a lock either can take it or waits for a holder that is at the
\* step the lock protects, which requests no other lock.
C36_ClientLockSerializesFetches ==
    /\ network.status = "pending" =>
          ~(fetch["indexers"].pc = "fetch" /\ fetch["subgraphs"].pc = "fetch")
    /\ \A b \in {"indexers", "subgraphs"} :
          /\ client_lock = b => fetch[b].pc = "fetch"
          /\ (network.status = "pending" /\ fetch[b].pc = "fetch") => client_lock = b
    /\ (\E i \in Indexers : fu[i].pc # "absent") => client_lock # "indexers"
    /\ network.status = "pending" =>
          /\ \A b \in {"indexers", "subgraphs"} :
                fetch[b].pc = "lock" =>
                    \/ ENABLED ClientLock(b)
                    \/ \E h \in {"indexers", "subgraphs"} :
                          client_lock = h /\ fetch[h].pc = "fetch"
          /\ \A i \in Indexers :
                /\ fu[i].pc = "host_lock" =>
                       \/ ENABLED FuHostLock(i)
                       \/ \E h \in Indexers : host_resolver_lock = h /\ fu[h].pc = "host"
                /\ (fu[i].pc = "poi" /\ ~ENABLED FuPoiNotAffected(i)) =>
                       \/ ENABLED FuPoiLock(i)
                       \/ \E h \in Indexers :
                             poi_resolver_lock = h /\ fu[h].pc = "poi_resolve"

\* The future of an indexer holds the host resolver while the subgraphs
\* branch holds the client for its fetch.
C36_Witness ==
    /\ network.status = "pending"
    /\ client_lock = "subgraphs"
    /\ fetch["subgraphs"].pc = "fetch"
    /\ \E i \in Indexers : fu[i].pc = "host" /\ host_resolver_lock = i

\* C22: of the fetched indexers, exactly those are accepted that have a URL
\* that parses, has the scheme http or https and a host, and that have an
\* allocation; all the others are rejected.
C22_OnlyHttpOrHttpsAccepted ==
    (fetch["indexers"].pc = "done" /\ fetch["indexers"].result.ok) =>
        \A k \in 1..Len(fetch["indexers"].outcome.v) :
            LET indexer == fetch["indexers"].outcome.v[k] IN
            (\E j \in 1..Len(fetch["indexers"].result.v) :
                 fetch["indexers"].result.v[j].id = indexer.id)
            <=> /\ indexer.url.some
                /\ indexer.url.v.parses
                /\ indexer.url.v.scheme \in {<<"h", "t", "t", "p">>,
                                             <<"h", "t", "t", "p", "s">>}
                /\ indexer.url.v.host
                /\ indexer.allocations # <<>>

\* The tokens of the allocations of a fetched list on a deployment.
TokensOn(allocations, d) ==
    LET F[k \in 0..Len(allocations)] ==
            IF k = 0 THEN 0
            ELSE F[k - 1] + (IF allocations[k].subgraph_deployment = d
                             THEN allocations[k].allocated_tokens ELSE 0)
    IN F[Len(allocations)]

\* C23: for every accepted indexer and every deployment it has an allocation
\* on, total_allocated_tokens is the sum of the tokens of its allocations on
\* the deployment, and largest_allocation is one of these allocations, none of
\* the others having more tokens.
C23_TotalAndLargestAllocation ==
    (fetch["indexers"].pc = "done" /\ fetch["indexers"].result.ok) =>
        \A k \in 1..Len(fetch["indexers"].outcome.v) :
            \A j \in 1..Len(fetch["indexers"].result.v) :
                LET indexer == fetch["indexers"].outcome.v[k]
                    info == fetch["indexers"].result.v[j]
                IN info.id = indexer.id =>
                    /\ SeqToSet(info.deployments) =
                           {indexer.allocations[a].subgraph_deployment :
                               a \in 1..Len(indexer.allocations)}
                    /\ \A d \in SeqToSet(info.deployments) :
                          /\ info.total_allocated_tokens[d] = TokensOn(indexer.allocations, d)
                          /\ \E a \in 1..Len(indexer.allocations) :
                                /\ indexer.allocations[a].subgraph_deployment = d
                                /\ indexer.allocations[a].id = info.largest_allocation[d]
                                /\ \A o \in 1..Len(indexer.allocations) :
                                      indexer.allocations[o].subgraph_deployment = d =>
                                          indexer.allocations[o].allocated_tokens <=
                                              indexer.allocations[a].allocated_tokens

\* An accepted indexer with two allocations of different size on a deployment
\* and an allocation on another deployment.
C23_Witness ==
    /\ fetch["indexers"].pc = "done"
    /\ fetch["indexers"].result.ok
    /\ \E j \in 1..Len(fetch["indexers"].result.v) :
          LET info == fetch["indexers"].result.v[j] IN
          /\ Len(info.deployments) = 2
          /\ info.total_allocated_tokens["d1"] = 40
          /\ info.largest_allocation["d1"] = "a1"

(***************************************************************************)
(* Properties of handle_ready, checked under SpecRD.                       *)
(***************************************************************************)
\* C27: handle_ready answers 200 when, at the time of the request, more than
\* 30 seconds have passed since startup, every configured chain has an
\* observed head and at least one allocation is known, and 425 in every other
\* state, whatever it answered before.
C27_ReadyOnlyWhenAllReady ==
    [][Len(ready_responses') = Len(ready_responses) + 1 =>
          ready_responses'[Len(ready_responses')] =
              (IF /\ ready_data.elapsed > 30
                  /\ \A c \in DOMAIN ready_data.chain_head : ready_data.chain_head[c]
                  /\ ready_data.allocations.some
                  /\ ready_data.allocations.v >= 1
               THEN 200 ELSE 425)]_vars

\* handle_ready has answered 200 and, at a later request, 425.
C27_Witness == ready_responses = <<200, 425>>

(***************************************************************************)
(* Properties of check_indexer_blocked_by_version, checked under SpecBV.   *)
(***************************************************************************)
\* C32: check_indexer_blocked_by_version sets legacy_scalar to true exactly
\* when the indexer's agent version is not strictly greater than
\* min_scalar_tap_version, and to false otherwise.
C32_LegacyScalarIffNotAboveCutover ==
    \A i \in Indexers :
        fu[i].pc = "poi" =>
            (fu[i].indexer.legacy_scalar
                <=> ~VersionGt(fu[i].indexer.indexer_agent_version, min_scalar_tap_version))

(***************************************************************************)
(* Properties of process_info on indexers sharing a URL, checked under     *)
(* SpecSU.                                                                 *)
(***************************************************************************)
\* C31: process_info returns exactly one result (Ok or Err) for every input
\* indexer, and the result of one indexer does not depend on the outcome of
\* any other indexer.  In the first call the POI cache starts empty, so the
\* result of an indexer follows from its own resolver outcomes alone: an
\* indexer whose own POI fetch fails gets Err(IndexingPoisResolutionFailed),
\* whatever the other indexers were answered.
C31_OneIndependentResultPerIndexer ==
    \A i \in Indexers :
        /\ proc[i].pc = "done" => proc[i].status \in {"ok", "err"}
        /\ (/\ refresh = 1
            /\ \E k \in 1..Len(calls[i]) :
                  calls[i][k][1] = "poi" /\ calls[i][k][2] = "timeout")
           => proc[i].status = "err" /\ proc[i].err = "IndexingPoisResolutionFailed"

(***************************************************************************)
(* Properties of the locks of LegacySigner, checked under SpecRC.          *)
(***************************************************************************)
\* A step of a create_legacy_receipt or record_receipt call that is under way.
CallStep ==
    \E t \in Callers :
        \/ CreateLockPool(t)
        \/ CreateCommit(t)
        \/ CreateNewPool(t)
        \/ CreateInsertPool(t)
        \/ RecordLockPool(t)
        \/ RecordRelease(t)

\* C35: no interleaving of concurrent create_legacy_receipt and
\* record_receipt calls, on the same or on different allocations, deadlocks:
\* while a call is under way some call can take a step; the pool-map lock is
\* never requested while a pool lock is held (a holder of a pool lock is at
\* the commit or the release, which request nothing); and the commit and the
\* release of a pool are mutually exclusive.
C35_NoDeadlockAmongReceiptCalls ==
    /\ (\E t \in Callers : callers[t].pc \notin {"idle", "holding"}) => ENABLED CallStep
    /\ \A p \in DOMAIN pool_lock :
          pool_lock[p] # None =>
              /\ callers[pool_lock[p]].pc \in {"commit_locked", "record_locked"}
              /\ callers[pool_lock[p]].pool = p
    /\ \A t1, t2 \in Callers :
          (/\ callers[t1].pc \in {"commit_locked", "record_locked"}
           /\ callers[t2].pc \in {"commit_locked", "record_locked"}
           /\ callers[t1].pool = callers[t2].pool)
          => t1 = t2

\* A record_receipt call holds the read lock of the map and waits for the lock
\* of the pool, which a create_legacy_receipt call holds for its commit.
C35_Witness ==
    \E t1, t2 \in Callers :
        /\ callers[t1].pc = "record_read"
        /\ t1 \in map_lock.readers
        /\ callers[t2].pc = "commit_locked"
        /\ callers[t1].pool = callers[t2].pool
        /\ pool_lock[callers[t2].pool] = t2

(***************************************************************************)
(* Properties of manifest_client::create, checked under SpecMC and         *)
(* SpecMCLive.                                                             *)
(***************************************************************************)
\* C39: after each update of the deployment list handled by create, the key
\* set of the published manifest map equals the latest deployment set: stale
\* deployments are removed, new deployments get a fetch task, and deployments
\* that were already present keep their entry without being fetched again.
C39_MapFollowsDeploymentList ==
    [][deployment_list' # deployment_list =>
        LET latest == SeqToSet(deployment_list'.v)
            spawned == (Len(manifest_tasks) + 1)..Len(manifest_tasks')
        IN /\ subgraph_info_map' = manifests'
           /\ {d \in Deployments : subgraph_info_map'[d] # 0} = latest
           /\ \A d \in Deployments :
                 /\ d \notin latest => manifests'[d] = 0
                 /\ (d \in latest /\ manifests[d] = 0) =>
                        /\ manifests'[d] \in spawned
                        /\ manifest_tasks'[manifests'[d]] = NewManifestTask(d)
                 /\ (d \in latest /\ manifests[d] # 0) =>
                        /\ manifests'[d] = manifests[d]
                        /\ \A t \in spawned : manifest_tasks'[t].deployment # d
           /\ \A t \in 1..Len(manifest_tasks) : manifest_tasks'[t] = manifest_tasks[t]
    ]_vars

\* After the second update the entry of d1 is the one of the first update and
\* the entry of d2, which the second list does not name, is gone.
C39_Witness ==
    /\ deployment_list = Some(<<"d1">>)
    /\ Len(manifest_tasks) = 2
    /\ manifest_tasks[2].deployment = "d2"
    /\ manifests = [d \in Deployments |-> IF d = "d1" THEN 1 ELSE 0]
    /\ subgraph_info_map = manifests

====
